---- MODULE Spec2Model ----
(***************************************************************************)
(* Model of the Spec-to-Pack Studio generation pipeline:                   *)
(*   src/src/studio/orchestrator.py  Orchestrator (run, _execute_step,     *)
(*                                   _execute_step_with_retry, _run_agent, *)
(*                                   the balanced and deep pipelines)      *)
(*   src/src/studio/audit.py         AuditLog (log_event, save)            *)
(*   src/src/studio/artifacts.py     Blackboard, AgentOutput               *)
(*   src/src/studio/agents/base.py   the artifacts each agent returns,     *)
(*                                   LibrarianAgent.run, PackagerAgent.run *)
(*   src/src/studio/guards/content_guards.py   ContentGuard                *)
(*   src/src/studio/cache/research_cache.py    ResearchCacheManager (get,  *)
(*                                   set, _remove_cache_file, clear_level, *)
(*                                   clear_all, clear_expired)             *)
(*   src/src/studio/app.py           StudioApp.generate                    *)
(*   src/src/studio/guards/network_guards.py   enforce_offline_mode        *)
(*                                                                         *)
(* One Orchestrator is constructed (Init) and run() is called on it.  One  *)
(* action models one call of the step executor together with every line of *)
(* run() and of the pipeline methods executed around it (state_enter       *)
(* events, the retry loop's bookkeeping, and, when an exception reaches    *)
(* run(), its except and finally blocks).  Two calls of run() on one       *)
(* Orchestrator (SpecRuns), a run under fairness (SpecLive), a run on the  *)
(* default configuration (SpecDefault), the guards (SpecGuard), the file   *)
(* cache shared by two processes (SpecCache), the bulk operations of the   *)
(* cache (SpecBulk), one call of the librarian (SpecLibrarian) and the     *)
(* calls of StudioApp.generate (SpecApp) have specifications of their own  *)
(* over the same variables.                                                *)
(***************************************************************************)
EXTENDS Integers, Sequences, FiniteSets, TLC

\* ---------------------------------------------------------------- bounds
\* Largest step budget an Orchestrator is constructed with in the model.
MaxBudget == 18
\* Largest number of agent outputs with a status other than "ok" in one run.
MaxNonOk == 1

\* ------------------------------------------------------ program constants
\* Orchestrator.__init__: self.max_retries, self.base_backoff_sec.
max_retries == 3
base_backoff_sec == 2

\* Budgets the Orchestrator is constructed with: none, two that run out at
\* the third and fourth step, and one large enough for all 17 steps of pack
\* type "both".
StepBudgets == {0, 2, 3, MaxBudget}

VARIABLES
    step_budget,    \* self.step_budget
    step_count,     \* self.step_count
    pc,             \* position of run(): "idle", a step name, "returned", "raised"
    attempt,        \* loop variable of _execute_step_with_retry (0-based)
    last_exception, \* local of _execute_step_with_retry
    pack,           \* argument pack of run()
    offline,        \* ctx.offline
    audience_mode,  \* ctx.dials.audience_mode.value
    run_id,         \* ctx.run_id
    spec_in,        \* the spec object passed to run()
    spec,           \* local variable spec of run()
    blackboard,     \* blackboard.artifacts (names, in order of addition)
    audit_events,   \* audit_log.events (in memory)
    audit_file,     \* the file ctx.out_dir / "audit.jsonl"
    out_files,      \* names of the files the step functions wrote into ctx.out_dir
    hashed,         \* names of the artifacts whose sha256_hash is not None
    result,         \* the ArtifactIndex returned by run(), or None
    raised,         \* the exception raised by run(), or NoExc
    \* history variables (observations of the run, not read by the program)
    trace,          \* executed step functions: [step, attempt, agent, spec]
    saves,          \* number of audit_log.save() calls in this run
    nonok,          \* number of agent outputs with status other than "ok"
    last_status,    \* the status of the AgentOutput of the latest step, if any
    framed,         \* the updated_spec returned by the framer
    retry_hist,     \* observations of the current/last retryable stage
    last_call,      \* observations of the latest call of the step executor
    first_run,      \* observations of the first call of run(), once it has ended
    \* guards/content_guards.py: the ContentGuard objects and their environment
    respect_robots_txt,   \* self.respect_robots_txt, per guard
    domain_request_count, \* self.domain_request_count, per guard (a defaultdict)
    domain_last_request,  \* self.domain_last_request, per guard (a dict)
    robots_cache,         \* self.robots_cache, per guard (a dict)
    site,                 \* what GET <domain>/robots.txt answers, per domain
    guard_obs,            \* observations of the guard calls (history)
    \* the wall clock: time.time() / datetime.now(), in whole time units
    clock,
    \* cache/research_cache.py: the cache directory and the processes using it
    cache_files,    \* content of the file at each path of the shard directory
    cache_dir,      \* whether the shard directory of the entries exists
    cache_procs,    \* per process: the cache call it is executing and its locals
    cache_obs,      \* observations of the cache calls (history)
    \* agents/base.py: one call of LibrarianAgent.run
    librarian,      \* its arguments, its position, its locals and its output
    \* app.py and guards/network_guards.py: the calls of StudioApp.generate
    app             \* the module globals of network_guards, the patched
                    \* library functions, and the position of generate()

orch_vars == << step_budget, step_count, pc, attempt, last_exception, pack, offline,
                audience_mode, run_id, spec_in, spec, blackboard, audit_events,
                audit_file, out_files, result, raised, trace, saves, nonok,
                last_status, framed, retry_hist, last_call, hashed, first_run >>

guard_vars == << respect_robots_txt, domain_request_count, domain_last_request,
                 robots_cache, site, guard_obs >>

cache_vars == << cache_files, cache_dir, cache_procs, cache_obs >>

vars == << orch_vars, guard_vars, clock, cache_vars, librarian, app >>

\* ------------------------------------------------------------ Python values
\* A Python value carries its type: a str never equals an Enum member.
PyStr(s) == [py |-> "str", v |-> s]
PyEnum(cls, s) == [py |-> cls, v |-> s]
\* types.Status
Status_OK == PyEnum("Status", "ok")
Status_RETRY == PyEnum("Status", "retry")
Status_FAIL == PyEnum("Status", "fail")
\* Enum.value
EnumValue(e) == PyStr(e.v)
\* Python ==: str.__eq__ and Enum.__eq__ both answer False for an operand
\* of another type.
PyEq(a, b) == a.py = b.py /\ a.v = b.v

None == "None"
NoExc == [type |-> "None", step |-> "", attempt |-> 0]
Exc(t, name, att) == [type |-> t, step |-> name, attempt |-> att]

PackTypes == {"balanced", "deep", "both"}
AudienceModes == {"brief", "balanced", "deep"}

\* ------------------------------------------------------------- audit log
\* AuditLog.log_event: builds a PipelineEvent and appends it to self.events.
\* The stage is the step name: its base name and, for an attempt of a
\* retryable step, the number n of its suffix "_attempt_{n}" (else 0).
log_event(events, event_type, rid, stage) ==
    Append(events, [event_type |-> event_type, run_id |-> rid,
                    stage |-> stage.name, attempt |-> stage.attempt])

\* The name a step runs under: the plain name (attempt 0), or the name with
\* the suffix "_attempt_{n}" that _execute_step_with_retry gives it.
StepName(name, att) == [name |-> name, attempt |-> att]

\* The audit file before any save.
NoFile == [exists |-> FALSE, lines |-> << >>]

\* save writing only the first event.
save_first_line(events) ==
    [exists |-> TRUE, lines |-> SubSeq(events, 1, IF Len(events) > 0 THEN 1 ELSE 0)]

\* AuditLog.save: opens the file with mode 'w' (creating or truncating it)
\* and writes one JSON line per event, in order.  A line is represented by
\* the event it serialises.
save(events) == [exists |-> TRUE, lines |-> events]

\* ------------------------------------------------------ the agent registry
\* Orchestrator.__init__, self.agents, and the step name each agent runs under.
AgentOf(step) ==
    CASE step = "frame_spec" -> "framer"
      [] step = "research_content" -> "librarian"
      [] step = "write_prd" -> "prd_writer"
      [] step = "generate_diagrams" -> "diagrammer"
      [] step = "design_tests" -> "qa_architect"
      [] step = "create_roadmap" -> "roadmapper"
      [] step = "generate_threat_model" -> "threat_model"
      [] step = "generate_accessibility_plan" -> "accessibility"
      [] step = "generate_observability_plan" -> "observability"
      [] step = "generate_runbooks" -> "runbook"
      [] step = "generate_slos" -> "slo"
      [] step = "generate_adrs" -> "adr"
      [] step = "generate_ci_workflow" -> "ci_workflow"
      [] step = "generate_contracts" -> "contract"
      [] step = "package_outputs" -> "packager"
      [] OTHER -> None

\* The artifacts an agent returns with status "ok" (agents/base.py).
OkArtifacts(agent) ==
    CASE agent = "prd_writer" -> << "prd.md", "test_plan.md" >>
      [] agent = "diagrammer" -> << "lifecycle.mmd", "sequence.mmd" >>
      [] agent = "roadmapper" -> << "roadmap.md" >>
      [] agent = "threat_model" -> << "threat_model.md" >>
      [] agent = "accessibility" -> << "accessibility_plan.md" >>
      [] agent = "observability" -> << "observability_plan.md" >>
      [] agent = "runbook" -> << "runbooks.md" >>
      [] agent = "slo" -> << "slos.md" >>
      [] agent = "adr" -> << "adrs.md" >>
      [] agent = "ci_workflow" -> << "workflow.yml" >>
      [] agent = "contract" -> << "api_contract.schema.json",
                                  "data_contract.schema.json",
                                  "service_contract.schema.json" >>
      [] OTHER -> << >>

\* The agents that can return Status.FAIL.value (every agent of
\* agents/base.py except the framer and the packager; none returns
\* Status.RETRY.value).
CanFail(agent) == agent \notin {"framer", "packager"}

\* The AgentOutputs the registered agents return.  status is a str holding
\* the value of a Status member; updated_spec is optional: the framer's is
\* kept by run(), any other agent's is dropped.  With status "fail" the
\* agents return no artifacts.
AgentOutputs(agent) ==
    LET upd == IF agent = "framer" THEN {None, "spec_framed"}
               ELSE {None, "spec_by_agent"}
        okArts == IF agent = "packager"
                  THEN {<< >>, << "output_bundle.zip" >>}  \* spec.export.bundle
                  ELSE {OkArtifacts(agent)}
    IN  [status : {EnumValue(Status_OK)}, artifacts : okArts, updated_spec : upd]
        \cup
        (IF CanFail(agent)
         THEN [status : {EnumValue(Status_FAIL)}, artifacts : {<< >>},
               updated_spec : upd]
         ELSE {})

NoOutput == [status |-> PyStr("none"), artifacts |-> << >>, updated_spec |-> None]

\* What a step function can do when it is called: raise, or return (with or
\* without overrunning timeout_per_step_sec).
StepOutcomes(step) ==
    LET outs == IF AgentOf(step) # None THEN AgentOutputs(AgentOf(step))
                ELSE IF step = "render_packs"
                \* _render_balanced_pack: brief.md rendered, or the rendering
                \* failure swallowed by its except clause
                THEN [status : {EnumValue(Status_OK)},
                      artifacts : {<< "brief" >>, << >>}, updated_spec : {None}]
                ELSE {NoOutput}
    IN  [raises : {TRUE}, slow : {FALSE}, out : {NoOutput}]
        \cup [raises : {FALSE}, slow : BOOLEAN, out : outs]

\* _run_agent returning the spec it was given, whatever the agent returned.
_run_agent_keeps_spec(agent_name, sp, bb, o, name, att) ==
    LET bb2 == bb \o o.out.artifacts
    IN  IF o.raises
        THEN [exc |-> Exc("AgentError", name, att), ret |-> None, bb |-> bb]
        ELSE IF PyEq(o.out.status, Status_FAIL)
        THEN [exc |-> Exc("RuntimeError", name, att), ret |-> None, bb |-> bb2]
        ELSE [exc |-> NoExc, ret |-> sp, bb |-> bb2]

\* Orchestrator._run_agent: the agent's artifacts go to the blackboard, its
\* updated_spec (if any) replaces the local spec, then the status is
\* compared with Status.FAIL.
\* Result: the exception raised (or NoExc), the spec returned, the blackboard.
_run_agent(agent_name, sp, bb, o, name, att) ==
    LET bb2 == bb \o o.out.artifacts
        sp2 == IF o.out.updated_spec # None THEN o.out.updated_spec ELSE sp
    IN  IF o.raises
        THEN [exc |-> Exc("AgentError", name, att), ret |-> None, bb |-> bb]
        ELSE IF PyEq(o.out.status, Status_FAIL)
        THEN [exc |-> Exc("RuntimeError", name, att), ret |-> None, bb |-> bb2]
        ELSE [exc |-> NoExc, ret |-> sp2, bb |-> bb2]

\* Orchestrator._validate_spec: raises ValueError when the validator's
\* result is not ok.
_validate_spec(o, bb, name, att) ==
    IF o.raises
    THEN [exc |-> Exc("ValueError", name, att), ret |-> None, bb |-> bb]
    ELSE [exc |-> NoExc, ret |-> None, bb |-> bb]

\* The rendering of brief.md has failed inside the try block of
\* _render_balanced_pack: the step function returns without an artifact.
RenderFailed(step, o) == step = "render_packs" /\ ~o.raises /\ o.out.artifacts = << >>

\* _render_balanced_pack without its except clause: the rendering failure
\* leaves the step function.
_render_balanced_pack_no_except(o, bb, name, att) ==
    IF o.raises \/ o.out.artifacts = << >>
    THEN [exc |-> Exc("RenderError", name, att), ret |-> None, bb |-> bb]
    ELSE [exc |-> NoExc, ret |-> None, bb |-> bb \o o.out.artifacts]

\* Orchestrator._render_balanced_pack: an exception raised while the
\* template data is built (o.raises) leaves it; one raised inside the try
\* block is caught and printed, and brief.md is not added to the blackboard.
_render_balanced_pack(o, bb, name, att) ==
    IF o.raises
    THEN [exc |-> Exc("RenderError", name, att), ret |-> None, bb |-> bb]
    ELSE [exc |-> NoExc, ret |-> None, bb |-> bb \o o.out.artifacts]

\* The lambda handed to the step executor for a step.
step_func(step, sp, bb, o, att) ==
    IF step = "validate_spec" THEN _validate_spec(o, bb, step, att)
    ELSE IF step = "render_packs" THEN _render_balanced_pack(o, bb, step, att)
    ELSE _run_agent(AgentOf(step), sp, bb, o, step, att)

\* _execute_step without the step_error event when the step function raises.
_execute_step_no_error_event(step, att, count, events, sp, bb, o) ==
    IF count >= step_budget
    THEN [exc |-> Exc("BudgetExceededException", step, att), ret |-> None,
          count |-> count, events |-> events, bb |-> bb, ran |-> FALSE]
    ELSE
      LET ev1 == log_event(events, "step_start", run_id, StepName("unknown", 0))
          f == step_func(step, sp, bb, o, att)
      IN  IF f.exc # NoExc
          THEN [exc |-> f.exc, ret |-> None, count |-> count,
                events |-> ev1, bb |-> f.bb, ran |-> TRUE]
          ELSE IF o.slow
          THEN [exc |-> Exc("StepTimeoutException", step, att), ret |-> None,
                count |-> count,
                events |-> log_event(ev1, "step_error", run_id, StepName(step, att)),
                bb |-> f.bb, ran |-> TRUE]
          ELSE [exc |-> NoExc, ret |-> f.ret, count |-> count + 1,
                events |-> log_event(ev1, "step_complete", run_id, StepName(step, att)),
                bb |-> f.bb, ran |-> TRUE]

\* _execute_step refusing only once the counter is above the budget.
_execute_step_budget_off_by_one(step, att, count, events, sp, bb, o) ==
    IF count > step_budget
    THEN [exc |-> Exc("BudgetExceededException", step, att), ret |-> None,
          count |-> count, events |-> events, bb |-> bb, ran |-> FALSE]
    ELSE
      LET ev1 == log_event(events, "step_start", run_id, StepName("unknown", 0))
          f == step_func(step, sp, bb, o, att)
      IN  IF f.exc # NoExc
          THEN [exc |-> f.exc, ret |-> None, count |-> count,
                events |-> log_event(ev1, "step_error", run_id, StepName(step, att)),
                bb |-> f.bb, ran |-> TRUE]
          ELSE IF o.slow
          THEN [exc |-> Exc("StepTimeoutException", step, att), ret |-> None,
                count |-> count,
                events |-> log_event(ev1, "step_error", run_id, StepName(step, att)),
                bb |-> f.bb, ran |-> TRUE]
          ELSE [exc |-> NoExc, ret |-> f.ret, count |-> count + 1,
                events |-> log_event(ev1, "step_complete", run_id, StepName(step, att)),
                bb |-> f.bb, ran |-> TRUE]

\* _execute_step without the comparison of the duration with the timeout.
_execute_step_no_timeout(step, att, count, events, sp, bb, o) ==
    IF count >= step_budget
    THEN [exc |-> Exc("BudgetExceededException", step, att), ret |-> None,
          count |-> count, events |-> events, bb |-> bb, ran |-> FALSE]
    ELSE
      LET ev1 == log_event(events, "step_start", run_id, StepName("unknown", 0))
          f == step_func(step, sp, bb, o, att)
      IN  IF f.exc # NoExc
          THEN [exc |-> f.exc, ret |-> None, count |-> count,
                events |-> log_event(ev1, "step_error", run_id, StepName(step, att)),
                bb |-> f.bb, ran |-> TRUE]
          ELSE IF FALSE
          THEN [exc |-> Exc("StepTimeoutException", step, att), ret |-> None,
                count |-> count,
                events |-> log_event(ev1, "step_error", run_id, StepName(step, att)),
                bb |-> f.bb, ran |-> TRUE]
          ELSE [exc |-> NoExc, ret |-> f.ret, count |-> count + 1,
                events |-> log_event(ev1, "step_complete", run_id, StepName(step, att)),
                bb |-> f.bb, ran |-> TRUE]

\* _execute_step incrementing the counter also when the step function
\* raises or overruns the timeout.
_execute_step_counts_failures(step, att, count, events, sp, bb, o) ==
    IF count >= step_budget
    THEN [exc |-> Exc("BudgetExceededException", step, att), ret |-> None,
          count |-> count, events |-> events, bb |-> bb, ran |-> FALSE]
    ELSE
      LET ev1 == log_event(events, "step_start", run_id, StepName("unknown", 0))
          f == step_func(step, sp, bb, o, att)
      IN  IF f.exc # NoExc
          THEN [exc |-> f.exc, ret |-> None, count |-> count + 1,
                events |-> log_event(ev1, "step_error", run_id, StepName(step, att)),
                bb |-> f.bb, ran |-> TRUE]
          ELSE IF o.slow
          THEN [exc |-> Exc("StepTimeoutException", step, att), ret |-> None,
                count |-> count + 1,
                events |-> log_event(ev1, "step_error", run_id, StepName(step, att)),
                bb |-> f.bb, ran |-> TRUE]
          ELSE [exc |-> NoExc, ret |-> f.ret, count |-> count + 1,
                events |-> log_event(ev1, "step_complete", run_id, StepName(step, att)),
                bb |-> f.bb, ran |-> TRUE]

\* Orchestrator._execute_step for step name `step` (attempt att, 0 when the
\* step is not retryable), with the step function behaving as o.
\* Result: exc (NoExc when it returned), ret, count, events, bb, ran.
_execute_step(step, att, count, events, sp, bb, o) ==
    IF count >= step_budget
    THEN [exc |-> Exc("BudgetExceededException", step, att), ret |-> None,
          count |-> count, events |-> events, bb |-> bb, ran |-> FALSE]
    ELSE
      LET ev1 == log_event(events, "step_start", run_id, StepName("unknown", 0))
          f == step_func(step, sp, bb, o, att)
      IN  IF f.exc # NoExc
          THEN [exc |-> f.exc, ret |-> None, count |-> count,
                events |-> log_event(ev1, "step_error", run_id, StepName(step, att)),
                bb |-> f.bb, ran |-> TRUE]
          ELSE IF o.slow
          THEN [exc |-> Exc("StepTimeoutException", step, att), ret |-> None,
                count |-> count,
                events |-> log_event(ev1, "step_error", run_id, StepName(step, att)),
                bb |-> f.bb, ran |-> TRUE]
          ELSE [exc |-> NoExc, ret |-> f.ret, count |-> count + 1,
                events |-> log_event(ev1, "step_complete", run_id, StepName(step, att)),
                bb |-> f.bb, ran |-> TRUE]

\* ------------------------------------------------------- the pipeline order
\* The pipeline order with the deep pipeline run before the balanced one.
NextStep_deep_first(step, pk) ==
    CASE step = "validate_spec" -> "frame_spec"
      [] step = "frame_spec" ->
            IF pk = "balanced" THEN "research_content"
            ELSE "generate_threat_model"
      [] step = "research_content" -> "write_prd"
      [] step = "write_prd" -> "generate_diagrams"
      [] step = "generate_diagrams" -> "design_tests"
      [] step = "design_tests" -> "create_roadmap"
      [] step = "create_roadmap" -> "render_packs"
      [] step = "render_packs" -> "package_outputs"
      [] step = "generate_threat_model" -> "generate_accessibility_plan"
      [] step = "generate_accessibility_plan" -> "generate_observability_plan"
      [] step = "generate_observability_plan" -> "generate_runbooks"
      [] step = "generate_runbooks" -> "generate_slos"
      [] step = "generate_slos" -> "generate_adrs"
      [] step = "generate_adrs" -> "generate_ci_workflow"
      [] step = "generate_ci_workflow" -> "generate_contracts"
      [] step = "generate_contracts" ->
            IF pk = "both" THEN "research_content" ELSE "package_outputs"
      [] OTHER -> "returned"

\* The step run() calls after `step` has returned: run() lines 140-155,
\* _run_balanced_pipeline, _run_deep_pipeline.
NextStep(step, pk) ==
    CASE step = "validate_spec" -> "frame_spec"
      [] step = "frame_spec" ->
            IF pk \in {"balanced", "both"} THEN "research_content"
            ELSE "generate_threat_model"
      [] step = "research_content" -> "write_prd"
      [] step = "write_prd" -> "generate_diagrams"
      [] step = "generate_diagrams" -> "design_tests"
      [] step = "design_tests" -> "create_roadmap"
      [] step = "create_roadmap" -> "render_packs"
      [] step = "render_packs" ->
            IF pk \in {"deep", "both"} THEN "generate_threat_model"
            ELSE "package_outputs"
      [] step = "generate_threat_model" -> "generate_accessibility_plan"
      [] step = "generate_accessibility_plan" -> "generate_observability_plan"
      [] step = "generate_observability_plan" -> "generate_runbooks"
      [] step = "generate_runbooks" -> "generate_slos"
      [] step = "generate_slos" -> "generate_adrs"
      [] step = "generate_adrs" -> "generate_ci_workflow"
      [] step = "generate_ci_workflow" -> "generate_contracts"
      [] step = "generate_contracts" -> "package_outputs"
      [] OTHER -> "returned"

\* Steps run through _execute_step directly inside the two pipelines.
PipelineSteps ==
    { "write_prd", "generate_diagrams", "design_tests", "create_roadmap",
      "generate_threat_model", "generate_accessibility_plan",
      "generate_observability_plan", "generate_runbooks", "generate_slos",
      "generate_adrs", "generate_ci_workflow", "generate_contracts" }

\* Steps run through _execute_step_with_retry with retryable=True.
RetryableSteps == { "research_content", "render_packs" }

\* Number of "state_enter" events logged right before a step is started
\* (SliceMVP + WritePRD, RedTeam + RenderPacks, Deep pipeline + threat model).
StateEnters(step) ==
    CASE step \in {"write_prd", "render_packs", "generate_threat_model"} -> 2
      [] step \in PipelineSteps \cup {"research_content"} -> 1
      [] OTHER -> 0

RECURSIVE log_state_enter(_, _)
log_state_enter(events, n) ==
    IF n = 0 THEN events
    ELSE log_state_enter(log_event(events, "state_enter", run_id, StepName("unknown", 0)), n - 1)

\* ResearchGuard without the audience-mode condition.
ResearchGuard_offline_only == ~offline

\* The guard of the Research state (_run_balanced_pipeline, line 269).
ResearchGuard == ~offline /\ audience_mode \in {"balanced", "deep"}

\* The except clause logging "step_retry_failed" after every failed attempt.
except_clause_event_always_failed(att) == "step_retry_failed"

\* The except clause logging "step_max_retries_exceeded" after every failed
\* attempt.
except_clause_event_always_exceeded(att) == "step_max_retries_exceeded"

\* The event the except clause of _execute_step_with_retry logs after the
\* failure of attempt number `att` (0-based): lines 191-198.
except_clause_event(att) ==
    IF att < max_retries THEN "step_retry_failed" ELSE "step_max_retries_exceeded"

\* backoff_time with the exponent off by one (2 ** attempt).
backoff_time_from_attempt(att) == base_backoff_sec * (2 ^ att)

\* The exponential backoff slept before attempt number `att` (0-based, > 0).
backoff_time(att) == base_backoff_sec * (2 ^ (att - 1))

\* Blackboard.publish followed by run()'s stamping of the run id.
publish(bb, rid) == [run_id |-> rid, artifacts |-> bb]

IsNonOk(o) == ~o.raises /\ o.out.status # EnumValue(Status_OK)
            /\ o.out.status # NoOutput.status

NoRetryHist == [stage |-> None, entry_count |-> 0, log_before |-> 0,
                attempts |-> 0, executed |-> 0,
                sleeps |-> << >>, outcome |-> None, last_exc |-> NoExc]

\* The step executor has not been called in this run.  Of a call: the step
\* and the attempt, the counter before and after, the exception, whether the
\* step function ran, overran the timeout and returned a value, the events
\* written, whether the rendering of the template failed inside the step
\* function, and the number of artifacts added to the blackboard.
NoCall == [step |-> None, attempt |-> 0, count_before |-> 0, count_after |-> 0,
           exc |-> NoExc, ran |-> FALSE, overran |-> FALSE, returned |-> FALSE,
           wrote |-> << >>, render_failed |-> FALSE, added |-> 0]

\* The names of the steps whose step function was executed, in order.
StepsOf(tr) == [i \in 1..Len(tr) |-> tr[i].step]

\* No call of run() has ended before the current one.
NoRun == [pack |-> None, offline |-> FALSE, audience_mode |-> None,
          pc |-> None, steps |-> << >>, raised |-> NoExc]

\* PackagerAgent.run, lines 1479-1506: the artifacts whose hash the packager
\* calculates, given the blackboard, the files that exist in ctx.out_dir
\* and spec.export.bundle: with the flag set, every artifact of the
\* blackboard whose file exists and the zip archive; without it, none.
PackagerHashes(bb, files, bundle) ==
    IF bundle
    THEN { bb[i] : i \in { j \in 1..Len(bb) : bb[j] \in files } }
         \cup {"output_bundle.zip"}
    ELSE {}

\* ------------------------------------------------------------------ Init
OrchIdle ==
    /\ step_count = 0
    /\ pc = "idle"
    /\ attempt = 0
    /\ last_exception = NoExc
    /\ pack = None
    /\ offline = FALSE
    /\ audience_mode = None
    /\ run_id = None
    /\ spec_in = None
    /\ spec = None
    /\ blackboard = << >>
    /\ audit_events = << >>
    /\ audit_file = NoFile
    /\ out_files = {}
    /\ result = None
    /\ raised = NoExc
    /\ trace = << >>
    /\ saves = 0
    /\ nonok = 0
    /\ last_status = NoOutput.status
    /\ framed = None
    /\ retry_hist = NoRetryHist
    /\ last_call = NoCall
    /\ hashed = {}
    /\ first_run = NoRun

\* No ContentGuard has been constructed.
NoGuards ==
    /\ respect_robots_txt = << >>
    /\ domain_request_count = << >>
    /\ domain_last_request = << >>
    /\ robots_cache = << >>
    /\ site = << >>
    /\ guard_obs = << >>

\* No process uses a cache directory.
NoCache ==
    /\ cache_files = << >>
    /\ cache_dir = FALSE
    /\ cache_procs = << >>
    /\ cache_obs = << >>

\* LibrarianAgent.run is not being followed.
NoLibrarian == librarian = << >>

\* StudioApp.generate is not being followed.
NoApp == app = << >>

Init ==
    /\ step_budget \in StepBudgets
    /\ OrchIdle
    /\ NoGuards
    /\ NoCache
    /\ NoLibrarian
    /\ NoApp
    /\ clock = 0

\* --------------------------------------------------------------- actions
\* run(): lines 130-136, up to the try block.
StartRun(pk, off, aud) ==
    /\ pc = "idle"
    /\ pack' = pk
    /\ offline' = off
    /\ audience_mode' = aud
    /\ run_id' = "run-1"
    /\ spec_in' = "spec_in"
    /\ spec' = "spec_in"
    /\ blackboard' = << >>
    /\ audit_events' = log_event(<< >>, "pipeline_start", "run-1", StepName("pipeline", 0))
    /\ pc' = "validate_spec"
    /\ UNCHANGED << step_budget, step_count, attempt, last_exception, audit_file,
                    out_files, result, raised, trace, saves, nonok, last_status,
                    framed, retry_hist, last_call, hashed, first_run >>
    /\ UNCHANGED << guard_vars, clock, cache_vars, librarian, app >>

\* run() without the except clause: no pipeline_error event.
Abort_without_event(events, e) ==
    /\ audit_events' = events
    /\ audit_file' = save(events)
    /\ saves' = saves + 1
    /\ raised' = e
    /\ result' = result
    /\ pc' = "raised"

\* run() without the finally block: the log is not saved.
Abort_without_save(events, e) ==
    LET ev == log_event(events, "pipeline_error", run_id, StepName("unknown", 0))
    IN  /\ audit_events' = ev
        /\ audit_file' = audit_file
        /\ saves' = saves
        /\ raised' = e
        /\ result' = result
        /\ pc' = "raised"

\* run()'s except and finally blocks, reached by exception e with the audit
\* events so far: one pipeline_error event, the exception re-raised, the log
\* saved.
Abort(events, e) ==
    LET ev == log_event(events, "pipeline_error", run_id, StepName("unknown", 0))
    IN  /\ audit_events' = ev
        /\ audit_file' = save(ev)
        /\ saves' = saves + 1
        /\ raised' = e
        /\ result' = result
        /\ pc' = "raised"

\* run() lines 157-164 and the finally block: the blackboard is published,
\* pipeline_complete is logged, the index is returned and the log saved.
Finish(events, bb) ==
    LET ev == log_event(events, "pipeline_complete", run_id, StepName("unknown", 0))
    IN  /\ audit_events' = ev
        /\ audit_file' = save(ev)
        /\ saves' = saves + 1
        /\ result' = publish(bb, run_id)
        /\ raised' = raised
        /\ pc' = "returned"

\* The files a returning step function has written into ctx.out_dir.
FilesOf(o) == { o.out.artifacts[i] : i \in 1..Len(o.out.artifacts) }

\* The event types of the events added to `before` in `after`.
EventsAdded(before, after) ==
    [i \in 1..(Len(after) - Len(before)) |-> after[Len(before) + i].event_type]

\* The observations common to every call of the step executor; `before` is
\* the audit log when the executor was called.
Observe(step, att, r, o, before) ==
    /\ last_call' = [step |-> step, attempt |-> att, count_before |-> step_count,
                     count_after |-> r.count, exc |-> r.exc, ran |-> r.ran,
                     overran |-> r.ran /\ ~o.raises /\ o.slow,
                     returned |-> r.ret # None,
                     wrote |-> EventsAdded(before, r.events),
                     render_failed |-> r.ran /\ RenderFailed(step, o),
                     added |-> Len(r.bb) - Len(blackboard)]
    /\ trace' = IF r.ran
                THEN Append(trace, [step |-> step, attempt |-> att, spec |-> spec])
                ELSE trace
    /\ nonok' = IF r.ran /\ IsNonOk(o) THEN nonok + 1 ELSE nonok
    /\ last_status' = IF r.ran /\ ~o.raises /\ AgentOf(step) # None
                      THEN o.out.status ELSE NoOutput.status
    /\ out_files' = IF r.ran /\ ~o.raises THEN out_files \cup FilesOf(o)
                    ELSE out_files

\* The call of the step executor for a step that is not retryable, preceded
\* by the state_enter events of the pipeline method.
CallStep(step, o) ==
    _execute_step(step, 0, step_count,
                  log_state_enter(audit_events, StateEnters(step)),
                  spec, blackboard, o)

\* A step of run() or of a pipeline that is not retryable, with r the result
\* of its call of the step executor: on an exception run()'s except/finally,
\* after package_outputs the publication, otherwise on to the next step.
PlainStep(step, o, r) ==
    /\ pc = step
    /\ IsNonOk(o) => nonok < MaxNonOk
    /\ step_count' = r.count
    /\ blackboard' = r.bb
    /\ UNCHANGED << guard_vars, clock, cache_vars, librarian, app >>
    /\ Observe(step, 0, r, o, log_state_enter(audit_events, StateEnters(step)))
    /\ IF r.exc # NoExc THEN Abort(r.events, r.exc)
       ELSE IF step = "package_outputs" THEN Finish(r.events, r.bb)
       ELSE /\ pc' = NextStep(step, pack)
            /\ audit_events' = r.events
            /\ UNCHANGED << audit_file, saves, raised, result >>
    /\ retry_hist' = NoRetryHist
    /\ hashed' = IF step = "package_outputs" /\ r.ran /\ ~o.raises
                 THEN hashed \cup PackagerHashes(blackboard, out_files,
                                                  o.out.artifacts # << >>)
                 ELSE hashed
    /\ UNCHANGED << step_budget, attempt, last_exception, pack, offline,
                    audience_mode, run_id, spec_in, first_run >>

\* run() line 140: the validate_spec step.
ValidateSpec ==
    /\ pc = "validate_spec"
    /\ \E o \in StepOutcomes("validate_spec") :
      \E r \in { CallStep("validate_spec", o) } :
        /\ PlainStep("validate_spec", o, r)
        /\ UNCHANGED << spec, framed >>

\* run() lines 143-144: the frame_spec step; its result becomes run()'s spec.
FrameSpec ==
    /\ pc = "frame_spec"
    /\ \E o \in StepOutcomes("frame_spec") :
      \E r \in { CallStep("frame_spec", o) } :
        /\ PlainStep("frame_spec", o, r)
        /\ spec' = IF r.exc = NoExc THEN r.ret ELSE spec
        /\ framed' = IF r.ran /\ ~o.raises THEN o.out.updated_spec ELSE framed

\* One non-retryable step of _run_balanced_pipeline or _run_deep_pipeline;
\* the value _execute_step returns is dropped.
PipelineStep(step) ==
    /\ step \in PipelineSteps
    /\ pc = step
    /\ \E o \in StepOutcomes(step) :
         \E r \in { CallStep(step, o) } :
            /\ PlainStep(step, o, r)
            /\ UNCHANGED << spec, framed >>

\* _run_balanced_pipeline lines 273-274: the Research state is skipped.
SkipResearch ==
    /\ pc = "research_content"
    /\ ~ResearchGuard
    /\ audit_events' = log_event(audit_events, "state_skip", run_id, StepName("unknown", 0))
    /\ pc' = "write_prd"
    /\ UNCHANGED << step_budget, step_count, attempt, last_exception, pack,
                    offline, audience_mode, run_id, spec_in, spec, blackboard,
                    audit_file, out_files, result, raised, trace, saves, nonok,
                    last_status, framed, retry_hist, last_call, hashed, first_run >>
    /\ UNCHANGED << guard_vars, clock, cache_vars, librarian, app >>

\* One iteration of the loop of _execute_step_with_retry (retryable=True)
\* for research_content or render_packs: before the first attempt the
\* state_enter events of the pipeline; before a later attempt the step_retry
\* event and the backoff sleep; then _execute_step under the suffixed name;
\* then the except clause.
RetryStep(step) ==
    /\ step \in RetryableSteps
    /\ pc = step
    /\ step = "research_content" => ResearchGuard
    /\ UNCHANGED << guard_vars, clock, cache_vars, librarian, app >>
    /\ \E o \in StepOutcomes(step) :
       \E r \in { _execute_step(step, attempt + 1, step_count,
                      IF attempt = 0
                      THEN log_state_enter(audit_events, StateEnters(step))
                      ELSE log_event(audit_events, "step_retry", run_id,
                                     StepName("unknown", 0)),
                      spec, blackboard, o) } :
       LET att == attempt
           slept == IF att > 0 THEN << backoff_time(att) >> ELSE << >>
           h == IF att = 0
                THEN [NoRetryHist EXCEPT !.stage = step, !.entry_count = step_count,
                                         !.log_before = Len(audit_events)]
                ELSE retry_hist
           h2 == [h EXCEPT !.attempts = @ + 1,
                           !.executed = IF r.ran THEN @ + 1 ELSE @,
                           !.sleeps = @ \o slept,
                           !.last_exc = r.exc]
       IN  /\ IsNonOk(o) => nonok < MaxNonOk
           /\ step_count' = r.count
           /\ blackboard' = r.bb
           /\ Observe(step, att + 1, r, o,
                      IF att = 0
                      THEN log_state_enter(audit_events, StateEnters(step))
                      ELSE log_event(audit_events, "step_retry", run_id,
                                     StepName("unknown", 0)))
           /\ IF r.exc = NoExc
              THEN /\ pc' = NextStep(step, pack)
                   /\ attempt' = 0
                   /\ last_exception' = NoExc
                   /\ audit_events' = r.events
                   /\ retry_hist' = [h2 EXCEPT !.outcome = "returned"]
                   /\ UNCHANGED << audit_file, saves, raised, result >>
              ELSE IF att < max_retries
              THEN /\ pc' = pc
                   /\ attempt' = att + 1
                   /\ last_exception' = r.exc
                   /\ audit_events' = log_event(r.events, except_clause_event(att),
                                                run_id, StepName("unknown", 0))
                   /\ retry_hist' = [h2 EXCEPT !.outcome = "retrying"]
                   /\ UNCHANGED << audit_file, saves, raised, result >>
              ELSE \* last_exception = e; raise last_exception (the locals end here)
                   /\ attempt' = 0
                   /\ last_exception' = NoExc
                   /\ retry_hist' = [h2 EXCEPT !.outcome = "raised"]
                   /\ Abort(log_event(r.events, except_clause_event(att),
                                      run_id, StepName("unknown", 0)),
                            r.exc)
           /\ UNCHANGED << step_budget, pack, offline, audience_mode, run_id,
                           spec_in, spec, framed, hashed, first_run >>

\* run() lines 154-164: the package_outputs step, and after it the
\* publication of the blackboard.
PackageOutputs ==
    /\ pc = "package_outputs"
    /\ \E o \in StepOutcomes("package_outputs") :
      \E r \in { CallStep("package_outputs", o) } :
        /\ PlainStep("package_outputs", o, r)
        /\ UNCHANGED << spec, framed >>

\* A second call of run() on the same Orchestrator, after the first call has
\* returned or raised: run() lines 130-136 again, with a new AuditLog and
\* Blackboard.  No line of run() assigns self.step_count, which keeps the
\* value the first call left (it is set in __init__ only, line 124).  The
\* second RunContext has its own run_id and the same out_dir.
RunAgain(pk, off, aud) ==
    /\ pc \in {"returned", "raised"}
    /\ run_id = "run-1"
    /\ pack' = pk
    /\ offline' = off
    /\ audience_mode' = aud
    /\ run_id' = "run-2"
    /\ spec_in' = "spec_in"
    /\ spec' = "spec_in"
    /\ blackboard' = << >>
    /\ audit_events' = log_event(<< >>, "pipeline_start", "run-2", StepName("pipeline", 0))
    /\ pc' = "validate_spec"
    /\ attempt' = 0
    /\ last_exception' = NoExc
    /\ result' = None
    /\ raised' = NoExc
    /\ trace' = << >>
    /\ saves' = 0
    /\ last_status' = NoOutput.status
    /\ framed' = None
    /\ retry_hist' = NoRetryHist
    /\ last_call' = NoCall
    /\ hashed' = {}
    /\ first_run' = [pack |-> pack, offline |-> offline,
                     audience_mode |-> audience_mode, pc |-> pc,
                     steps |-> StepsOf(trace), raised |-> raised]
    /\ UNCHANGED << step_budget, step_count, audit_file, out_files, nonok >>
    /\ UNCHANGED << guard_vars, clock, cache_vars, librarian, app >>

Next ==
    \/ \E pk \in PackTypes, off \in BOOLEAN, aud \in AudienceModes :
          StartRun(pk, off, aud)
    \/ ValidateSpec
    \/ FrameSpec
    \/ SkipResearch
    \/ \E step \in RetryableSteps : RetryStep(step)
    \/ \E step \in PipelineSteps : PipelineStep(step)
    \/ PackageOutputs

Spec == Init /\ [][Next]_vars

\* No step function has raised, overrun its timeout or returned a status
\* other than "ok" in the current call of run().
NoStepFailed ==
    /\ nonok = 0
    /\ \A i \in 1..Len(audit_events) : audit_events[i].event_type # "step_error"

\* Two calls of run() on one Orchestrator whose step functions all succeed:
\* the only exception left is the step executor's own budget refusal.
NextRuns ==
    \/ Next /\ NoStepFailed'
    \/ \E pk \in PackTypes, off \in BOOLEAN, aud \in AudienceModes :
          RunAgain(pk, off, aud)

SpecRuns == Init /\ [][NextRuns]_vars

\* One call of run() whose agents and step functions all return or raise:
\* run() is sequential code, so once it has been called each of its
\* statements is executed in turn; the step that is due is taken.  Agent
\* outputs with a status other than "ok" are left out (they take the same
\* path as "ok" ones).
RunSteps ==
    \/ ValidateSpec
    \/ FrameSpec
    \/ SkipResearch
    \/ \E step \in RetryableSteps : RetryStep(step)
    \/ \E step \in PipelineSteps : PipelineStep(step)
    \/ PackageOutputs

NextLive ==
    \/ \E pk \in PackTypes, off \in BOOLEAN, aud \in AudienceModes :
          StartRun(pk, off, aud)
    \/ RunSteps /\ nonok' = 0

SpecLive == Init /\ [][NextLive]_vars /\ WF_vars(RunSteps /\ nonok' = 0)

\* Orchestrator() with the default configuration: step_budget = 12.
default_step_budget == 12

InitDefault ==
    /\ step_budget = default_step_budget
    /\ OrchIdle
    /\ NoGuards
    /\ NoCache
    /\ NoLibrarian
    /\ NoApp
    /\ clock = 0

\* One call of run() on a default Orchestrator in which every step function
\* returns in time with status "ok".
NextDefault == Next /\ NoStepFailed'

SpecDefault == InitDefault /\ [][NextDefault]_vars

\* =========================================================== ContentGuard
\* guards/content_guards.py.  Two guards are constructed; their methods are
\* called in any order, on URLs of two domains, while time passes.

\* Largest number of guard method calls in a behaviour.
MaxCalls == 3
\* Largest clock value.
MaxTime == 2

\* ContentGuard(max_docs_per_domain=2), rate_limit_delay default 2.0.
max_docs_per_domain == 2
rate_limit_delay == 2

GuardIds == {"g1", "g2"}

\* A URL as urlparse splits it; a path is its sequence of segments.
Url(scheme, netloc, path) == [scheme |-> scheme, netloc |-> netloc, path |-> path]
Urls == { Url("https", "a.example", << "docs" >>),
          Url("https", "a.example", << "private", "x" >>),
          Url("https", "b.example", << "docs" >>) }

\* domain = f"{parsed.scheme}://{parsed.netloc}"
DomainOf(url) == << url.scheme, url.netloc >>
Domains == { DomainOf(u) : u \in Urls }

\* A line of a robots.txt, and the answers to GET <domain>/robots.txt: a
\* document for all agents, a document for another agent only, no document,
\* and a failed request (requests.get raises).
RobotsLine(field, value) == [field |-> field, value |-> value]
RobotsResponses ==
    { [status |-> "200", lines |-> << RobotsLine("User-agent", "*"),
                                      RobotsLine("Disallow", << >>),
                                      RobotsLine("Disallow", << "private" >>) >>],
      [status |-> "200", lines |-> << RobotsLine("User-agent", "otherbot"),
                                      RobotsLine("Disallow", << "docs" >>) >>],
      [status |-> "404", lines |-> << >>],
      [status |-> "raises", lines |-> << >>] }

\* str.startswith on paths.
startswith(path, prefix) ==
    /\ Len(prefix) <= Len(path)
    /\ SubSeq(path, 1, Len(prefix)) = prefix

\* The loop of _check_robots_txt over the lines: the non-empty Disallow
\* paths of the "User-agent: *" groups.
RECURSIVE disallowed_paths(_, _)
disallowed_paths(lines, current_user_agent) ==
    IF lines = << >> THEN << >>
    ELSE LET line == Head(lines)
         IN  IF line.field = "User-agent"
             THEN disallowed_paths(Tail(lines),
                                   IF line.value = "*" THEN "*" ELSE None)
             ELSE IF line.field = "Disallow" /\ current_user_agent = "*"
             THEN (IF line.value # << >> THEN << line.value >> ELSE << >>)
                  \o disallowed_paths(Tail(lines), current_user_agent)
             ELSE disallowed_paths(Tail(lines), current_user_agent)

\* Whether a robots.txt answer disallows a path for all agents.
RobotsDisallows(response, path) ==
    /\ response.status = "200"
    /\ LET dp == disallowed_paths(response.lines, None)
       IN  \E i \in 1..Len(dp) : startswith(path, dp[i])

\* A dict read with a default, and a dict assignment.
DictGet(dict, key, default) == IF key \in DOMAIN dict THEN dict[key] ELSE default
DictSet(dict, key, value) == (key :> value) @@ dict

\* ContentGuard._check_robots_txt with a verdict cached per URL instead of
\* per domain.
_check_robots_txt(cache, answers, url) ==
    LET cache_key == DomainOf(url)
    IN  IF cache_key \in DOMAIN cache
        THEN [allowed |-> cache[cache_key], cache |-> cache, fetched |-> FALSE]
        ELSE LET allowed == ~RobotsDisallows(answers[DomainOf(url)], url.path)
             IN  [allowed |-> allowed, cache |-> DictSet(cache, cache_key, allowed),
                  fetched |-> TRUE]

\* check_url_allowed raising only when the count exceeds the limit.
check_url_allowed_off_by_one(count, cache, respect, answers, url) ==
    LET domain == DomainOf(url)
        count1 == DictSet(count, domain, DictGet(count, domain, 0))
    IN  IF count1[domain] > max_docs_per_domain
        THEN [raises |-> "domain_limit", count |-> count1, cache |-> cache,
              fetched |-> FALSE]
        ELSE IF respect
        THEN LET r == _check_robots_txt(cache, answers, url)
             IN  [raises |-> IF r.allowed THEN None ELSE "robots_txt",
                  count |-> count1, cache |-> r.cache, fetched |-> r.fetched]
        ELSE [raises |-> None, count |-> count1, cache |-> cache, fetched |-> FALSE]

\* ContentGuard.check_url_allowed.  Reading the defaultdict creates the
\* domain's entry with 0.  Result: the error raised (None when it returns
\* True), the count and robots dicts afterwards, whether robots.txt was
\* fetched.
check_url_allowed(count, cache, respect, answers, url) ==
    LET domain == DomainOf(url)
        count1 == DictSet(count, domain, DictGet(count, domain, 0))
    IN  IF count1[domain] >= max_docs_per_domain
        THEN [raises |-> "domain_limit", count |-> count1, cache |-> cache,
              fetched |-> FALSE]
        ELSE IF respect
        THEN LET r == _check_robots_txt(cache, answers, url)
             IN  [raises |-> IF r.allowed THEN None ELSE "robots_txt",
                  count |-> count1, cache |-> r.cache, fetched |-> r.fetched]
        ELSE [raises |-> None, count |-> count1, cache |-> cache, fetched |-> FALSE]

\* check_rate_limit that sleeps one time unit only.
check_rate_limit_short_sleep(last, now, url, late) ==
    LET domain == DomainOf(url)
        wait_time == IF domain \in DOMAIN last /\ now - last[domain] < rate_limit_delay
                     THEN 1
                     ELSE 0
        woke == IF wait_time > 0 THEN now + wait_time + late ELSE now
    IN  [last |-> DictSet(last, domain, woke), now |-> woke, slept |-> wait_time]

\* ContentGuard.check_rate_limit at time now; time.sleep returns `late`
\* after the requested time.  Result: the dict afterwards, the time of the
\* return, the time slept.
check_rate_limit(last, now, url, late) ==
    LET domain == DomainOf(url)
        wait_time == IF domain \in DOMAIN last /\ now - last[domain] < rate_limit_delay
                     THEN rate_limit_delay - (now - last[domain])
                     ELSE 0
        woke == IF wait_time > 0 THEN now + wait_time + late ELSE now
    IN  [last |-> DictSet(last, domain, woke), now |-> woke, slept |-> wait_time]

\* ContentGuard.record_successful_fetch
record_successful_fetch(count, url) ==
    DictSet(count, DomainOf(url), DictGet(count, DomainOf(url), 0) + 1)

\* Observations of the guard calls: the latest call and, per guard and
\* domain, the successful fetches recorded since construction or the last
\* reset, the robots.txt fetches, and the time of the latest return of
\* check_rate_limit ever and since the last reset (-1: none).
NoGuardObs ==
    [op |-> None, g |-> None, url |-> None, raises |-> None, slept |-> 0,
     recorded_before |-> 0, prev_return |-> -1, prev_since_reset |-> -1,
     calls |-> 0,
     recorded |-> [g \in GuardIds |-> [d \in Domains |-> 0]],
     fetches |-> [g \in GuardIds |-> [d \in Domains |-> 0]],
     last_return |-> [g \in GuardIds |-> [d \in Domains |-> -1]],
     since_reset |-> [g \in GuardIds |-> [d \in Domains |-> -1]]]

\* Two guards constructed, the first with the default respect_robots_txt=True
\* and the second with False.
GuardsConstructed ==
    /\ respect_robots_txt = [g \in GuardIds |-> g = "g1"]
    /\ domain_request_count = [g \in GuardIds |-> << >>]
    /\ domain_last_request = [g \in GuardIds |-> << >>]
    /\ robots_cache = [g \in GuardIds |-> << >>]
    /\ clock = 0
    /\ site \in { answers \in [Domains -> RobotsResponses] :
                      answers[<< "https", "b.example" >>].status = "raises" }
    /\ guard_obs = NoGuardObs

InitGuard ==
    /\ step_budget = MaxBudget
    /\ OrchIdle
    /\ GuardsConstructed
    /\ NoCache
    /\ NoLibrarian
    /\ NoApp

CheckUrlAllowed(g, url) ==
    /\ guard_obs.calls < MaxCalls
    /\ LET r == check_url_allowed(domain_request_count[g], robots_cache[g],
                                  respect_robots_txt[g], site, url)
           d == DomainOf(url)
       IN  /\ domain_request_count' = [domain_request_count EXCEPT ![g] = r.count]
           /\ robots_cache' = [robots_cache EXCEPT ![g] = r.cache]
           /\ guard_obs' = [guard_obs EXCEPT
                  !.op = "check_url_allowed", !.g = g, !.url = url,
                  !.raises = r.raises, !.slept = 0,
                  !.recorded_before = guard_obs.recorded[g][d],
                  !.prev_return = -1, !.prev_since_reset = -1, !.calls = @ + 1,
                  !.fetches[g][d] = IF r.fetched THEN @ + 1 ELSE @]
    /\ UNCHANGED << respect_robots_txt, domain_last_request, clock, site >>
    /\ UNCHANGED << orch_vars, cache_vars, librarian, app >>

CheckRateLimit(g, url) ==
    /\ guard_obs.calls < MaxCalls
    /\ \E late \in {0, 1} :
       LET r == check_rate_limit(domain_last_request[g], clock, url, late)
           d == DomainOf(url)
       IN  /\ r.now <= MaxTime
           /\ late = 1 => r.slept > 0
           /\ domain_last_request' = [domain_last_request EXCEPT ![g] = r.last]
           /\ clock' = r.now
           /\ guard_obs' = [guard_obs EXCEPT
                  !.op = "check_rate_limit", !.g = g, !.url = url,
                  !.raises = None, !.slept = r.slept,
                  !.recorded_before = guard_obs.recorded[g][d],
                  !.prev_return = guard_obs.last_return[g][d],
                  !.prev_since_reset = guard_obs.since_reset[g][d],
                  !.calls = @ + 1,
                  !.last_return[g][d] = r.now,
                  !.since_reset[g][d] = r.now]
    /\ UNCHANGED << respect_robots_txt, domain_request_count, robots_cache, site >>
    /\ UNCHANGED << orch_vars, cache_vars, librarian, app >>

RecordSuccessfulFetch(g, url) ==
    /\ guard_obs.calls < MaxCalls
    /\ domain_request_count' =
          [domain_request_count EXCEPT
              ![g] = record_successful_fetch(domain_request_count[g], url)]
    /\ guard_obs' = [guard_obs EXCEPT
           !.op = "record_successful_fetch", !.g = g, !.url = url,
           !.raises = None, !.slept = 0,
           !.recorded_before = guard_obs.recorded[g][DomainOf(url)],
           !.prev_return = -1, !.prev_since_reset = -1, !.calls = @ + 1,
           !.recorded[g][DomainOf(url)] = @ + 1]
    /\ UNCHANGED << respect_robots_txt, domain_last_request, robots_cache, clock, site >>
    /\ UNCHANGED << orch_vars, cache_vars, librarian, app >>

\* ContentGuard.reset_domain_limits: both dicts are cleared.
ResetDomainLimits(g) ==
    /\ guard_obs.calls < MaxCalls
    /\ domain_request_count' = [domain_request_count EXCEPT ![g] = << >>]
    /\ domain_last_request' = [domain_last_request EXCEPT ![g] = << >>]
    /\ guard_obs' = [guard_obs EXCEPT
           !.op = "reset_domain_limits", !.g = g, !.url = None,
           !.raises = None, !.slept = 0, !.recorded_before = 0,
           !.prev_return = -1, !.prev_since_reset = -1, !.calls = @ + 1,
           !.recorded[g] = [d \in Domains |-> 0],
           !.since_reset[g] = [d \in Domains |-> -1]]
    /\ UNCHANGED << respect_robots_txt, robots_cache, clock, site >>
    /\ UNCHANGED << orch_vars, cache_vars, librarian, app >>

\* Time passes between two calls.
Tick ==
    /\ guard_obs # << >>
    /\ clock < MaxTime
    /\ clock' = clock + 1
    /\ UNCHANGED << respect_robots_txt, domain_request_count, domain_last_request,
                    robots_cache, site, guard_obs >>
    /\ UNCHANGED << orch_vars, cache_vars, librarian, app >>

NextGuard ==
    \/ \E g \in GuardIds, url \in Urls : CheckUrlAllowed(g, url)
    \/ \E g \in GuardIds, url \in Urls : CheckRateLimit(g, url)
    \/ \E g \in GuardIds, url \in Urls : RecordSuccessfulFetch(g, url)
    \/ \E g \in GuardIds : ResetDomainLimits(g)
    \/ Tick

SpecGuard == InitGuard /\ [][NextGuard]_vars

\* =================================================== ResearchCacheManager
\* cache/research_cache.py.  Two processes, each with its own
\* ResearchCacheManager on the same cache directory, call set and get; a
\* call is a sequence of file-system operations, one action each, so that
\* the calls of the two processes interleave.

\* Largest number of cache calls started in a behaviour.
MaxOps == 2
\* Largest number of faults (a process crash, a file damaged from outside).
MaxFaults == 1

Procs == {"p1", "p2"}

\* ttl_settings, in days, of the two levels used.
CacheLevels == {"search", "content"}
ttl_settings(level) == IF level = "search" THEN 1 ELSE 7

\* _cache_key: the SHA-256 of "level:identifier", taken as injective.
_cache_key(level, identifier) == << level, identifier >>
NoKey == << "", "" >>
\* The entries used; the hashes of both share their first four digits, so
\* _cache_path puts both files into the same shard directory.
CacheKeys == { _cache_key("search", "a"), _cache_key("content", "b") }

\* A path of the shard directory is a cache key and a suffix: _cache_path
\* gives <key>.json, set() writes to cache_path.with_suffix('.tmp').
_cache_path(cache_key) == << cache_key, "json" >>
\* set() writing straight to the real path.
temp_path_in_place(cache_path) == cache_path
temp_path(cache_path) == << cache_path[1], "tmp" >>
CachePaths == { _cache_path(k) : k \in CacheKeys } \cup
              { temp_path(_cache_path(k)) : k \in CacheKeys }
\* Where the file a process has open is now: at a path, or nowhere after the
\* path was unlinked or replaced; and the value when it has no file open.
Unlinked == << NoKey, "unlinked" >>
NoFd == << NoKey, "none" >>

\* Python payloads: a dict holding a list, and a dict holding a tuple.
PyData(id, seq) == [id |-> id, seq |-> seq]
NoData == PyData("", "")
\* json.dump writes lists and tuples as arrays; json.load reads an array as
\* a list.
json_dump_lossy(data) == [id |-> "", seq |-> "array"]
json_dump(data) == [id |-> data.id, seq |-> "array"]
json_load_data(text) == [id |-> text.id, seq |-> IF text.seq = "array" THEN "list" ELSE text.seq]

\* The document set() writes, and the halves a file holds (a document longer
\* than the I/O buffer reaches the file in more than one write).
cache_entry(now, cache_key, data) ==
    [cached_at |-> now, cache_key |-> cache_key, data |-> json_dump(data)]
NoChunk == [cached_at |-> -1, cache_key |-> NoKey, data |-> NoData]

\* A file: missing; written by set() (each half the document it belongs to,
\* or nothing); or damaged from outside: no JSON at all, or JSON that is no
\* object.
File(kind, c1, c2) == [kind |-> kind, c1 |-> c1, c2 |-> c2]
Absent == File("absent", NoChunk, NoChunk)
Empty == File("written", NoChunk, NoChunk)
CorruptKinds == {"unparsable", "not_object"}
Complete(file) == file.kind = "written" /\ file.c1 = file.c2 /\ file.c1 # NoChunk

\* The body of get()'s try block on the content of the real path at time
\* now: json.load, the 'cached_at' lookup, the expiry test.  Outcome "hit"
\* with the data, "expired", "corrupt" (an exception the except clause
\* catches) or "raise" (one it does not catch).
get_read_never_expires(file, level, now) ==
    IF file.kind = "absent" THEN [outcome |-> "corrupt", exc |-> "OSError", data |-> NoData]
    ELSE IF file.kind = "unparsable" \/ (file.kind = "written" /\ ~Complete(file))
    THEN [outcome |-> "corrupt", exc |-> "JSONDecodeError", data |-> NoData]
    ELSE IF file.kind = "not_object"
    THEN [outcome |-> "raise", exc |-> "TypeError", data |-> NoData]
    ELSE [outcome |-> "hit", exc |-> None, data |-> json_load_data(file.c1.data)]
get_read(file, level, now) ==
    IF file.kind = "absent" THEN [outcome |-> "corrupt", exc |-> "OSError", data |-> NoData]
    ELSE IF file.kind = "unparsable" \/ (file.kind = "written" /\ ~Complete(file))
    THEN [outcome |-> "corrupt", exc |-> "JSONDecodeError", data |-> NoData]
    ELSE IF file.kind = "not_object"
    THEN [outcome |-> "raise", exc |-> "TypeError", data |-> NoData]
    ELSE IF now - file.c1.cached_at > ttl_settings(level)
    THEN [outcome |-> "expired", exc |-> None, data |-> NoData]
    ELSE [outcome |-> "hit", exc |-> None, data |-> json_load_data(file.c1.data)]

\* A process that executes no cache call.
IdleProc ==
    [pc |-> "idle", key |-> NoKey, payload |-> NoData, entry |-> NoChunk,
     fd |-> NoFd, alone |-> FALSE, own_key |-> FALSE, follows |-> FALSE,
     before |-> Absent]

\* The result of a call: True of set, False of set after the exception of
\* open or of replace, hit/miss of get, an exception raised by get, the crash
\* of the process.
Result(kind, data) == [kind |-> kind, data |-> data]
\* A finished call: its arguments and its result; whether no other process
\* was inside a call while it ran (alone); for a set, whether no other
\* process was inside a call for the same key while it ran (own_key); for a
\* get, whether it started right after the call before it had ended, with
\* nothing in between (follows); the real file when it started.
OpRecord(op, p, key, payload, res, alone, own_key, follows, before) ==
    [op |-> op, p |-> p, key |-> key, payload |-> payload, result |-> res,
     alone |-> alone, own_key |-> own_key, follows |-> follows, before |-> before]
\* What is kept of a finished call once a later call has finished: its
\* arguments, its result, whether it ran alone, and for a set the real file
\* when it started.
Earlier(rec) ==
    [rec EXCEPT !.own_key = FALSE, !.follows = FALSE,
                !.before = IF rec.op = "set" THEN @ ELSE Absent]
NoOp == OpRecord(None, None, NoKey, NoData, Result(None, NoData), FALSE, FALSE,
                 FALSE, Absent)

\* Observations: the numbers of calls started and of faults, the two calls
\* that ended last, whether nothing has happened since the last of them
\* ended, and the keys ever set or damaged.
NoCacheObs ==
    [ops |-> 0, faults |-> 0, last |-> NoOp, prev |-> NoOp, quiet |-> FALSE,
     touched |-> {}]

\* The managers are constructed on a cache directory that holds, for any of
\* the keys, an entry an earlier manager has set at time 0.
StoredBefore(k) == cache_entry(0, k, PyData("old", "list"))
\* The entries an earlier process left in the directory: none, one, both.
StoredSets == {{}, {_cache_key("search", "a")}, CacheKeys}
CacheConstructed ==
    /\ \E stored \in StoredSets :
          /\ cache_files = [path \in CachePaths |->
                IF path[2] = "json" /\ path[1] \in stored
                THEN File("written", StoredBefore(path[1]), StoredBefore(path[1]))
                ELSE Absent]
          /\ cache_dir = (stored # {})
          /\ cache_obs = [NoCacheObs EXCEPT !.touched = stored]
    /\ cache_procs = [p \in Procs |-> IdleProc]

InitCache ==
    /\ step_budget = MaxBudget
    /\ OrchIdle
    /\ NoGuards
    /\ clock = 0
    /\ CacheConstructed
    /\ NoLibrarian
    /\ NoApp

\* ---- file-system operations
OthersIdle(p) == \A q \in Procs \ {p} : cache_procs[q].pc = "idle"
DirEmpty(files) == \A path \in CachePaths : files[path].kind = "absent"

\* Path.replace(src, dst): dst now names the file src named; files open at
\* dst before are open on a file without a name.
rename(files, src, dst) ==
    IF src = dst THEN files
    ELSE [files EXCEPT ![dst] = files[src], ![src] = Absent]
rename_fds(procs, src, dst) ==
    IF src = dst THEN procs
    ELSE [q \in Procs |->
            [procs[q] EXCEPT !.fd = IF @ = src THEN dst
                                    ELSE IF @ = dst THEN Unlinked ELSE @]]
\* Path.unlink(path)
unlink(files, path) == [files EXCEPT ![path] = Absent]
unlink_fds(procs, path) ==
    [q \in Procs |-> [procs[q] EXCEPT !.fd = IF @ = path THEN Unlinked ELSE @]]
\* f.write of half i of a document through a file object opened earlier.
write(files, fd, i, entry) ==
    IF fd \notin CachePaths THEN files
    ELSE IF i = 1 THEN [files EXCEPT ![fd].c1 = entry]
    ELSE [files EXCEPT ![fd].c2 = entry]

AllIdle == \A q \in Procs : cache_procs[q].pc = "idle"
\* The entries a process works on: the first on both, the second on one.
KeysOf(p) == IF p = "p1" THEN CacheKeys ELSE { _cache_key("content", "b") }
\* The payload a process caches.
PayloadOf(p) == IF p = "p1" THEN PyData("A", "list") ELSE PyData("B", "tuple")

\* The calls under way when a process starts a call for key k: none is
\* alone any more, and those for k do not have their key for themselves.
Disturbed(procs, k) ==
    [q \in Procs |-> [procs[q] EXCEPT !.alone = FALSE,
                                       !.own_key = @ /\ procs[q].key # k]]
OwnKey(p, k) == \A q \in Procs \ {p} : cache_procs[q].key # k

\* The call of process p has ended with result res.
EndCall(procs, p, op, res) ==
    LET pr == cache_procs[p]
    IN  /\ cache_procs' = [procs EXCEPT ![p] = IdleProc]
        /\ cache_obs' = [cache_obs EXCEPT
               !.prev = Earlier(cache_obs.last),
               !.last = OpRecord(op, p, pr.key, pr.payload, res, pr.alone,
                                 pr.own_key, pr.follows, pr.before),
               !.quiet = TRUE]

\* ---- set(level, identifier, data), lines 105-141
\* The call, up to and including cache_path.parent.mkdir and the
\* construction of cache_entry.
SetStart(p, k) ==
    /\ cache_procs[p].pc = "idle"
    /\ cache_obs.ops < MaxOps
    /\ cache_dir' = TRUE
    /\ cache_procs' = [Disturbed(cache_procs, k) EXCEPT ![p] =
          [pc |-> "set_open", key |-> k, payload |-> PayloadOf(p),
           entry |-> cache_entry(clock, k, PayloadOf(p)), fd |-> NoFd,
           alone |-> OthersIdle(p), own_key |-> OwnKey(p, k),
           follows |-> FALSE,
           before |-> cache_files[_cache_path(k)]]]
    /\ cache_obs' = [cache_obs EXCEPT !.ops = @ + 1, !.quiet = FALSE,
                                      !.touched = @ \cup {k}]
    /\ UNCHANGED << cache_files, clock >>
    /\ UNCHANGED << orch_vars, guard_vars, librarian, app >>

\* open(temp_path, 'w'): the file is created or truncated; in a directory
\* that is gone it raises FileNotFoundError and set returns False.
SetOpen(p) ==
    LET pr == cache_procs[p]
        tmp == temp_path(_cache_path(pr.key))
    IN  /\ pr.pc = "set_open"
        /\ IF ~cache_dir
           THEN /\ EndCall(cache_procs, p, "set", Result("false_open", NoData))
                /\ UNCHANGED cache_files
           ELSE /\ cache_files' = [cache_files EXCEPT ![tmp] = Empty]
                /\ cache_procs' = [cache_procs EXCEPT ![p].pc = "set_write1",
                                                      ![p].fd = tmp]
                /\ UNCHANGED cache_obs
        /\ UNCHANGED << cache_dir, clock >>
        /\ UNCHANGED << orch_vars, guard_vars, librarian, app >>

\* json.dump: the two halves of the document are written, the second
\* together with the close of the file.
SetWrite(p) ==
    LET pr == cache_procs[p]
    IN  /\ pr.pc \in {"set_write1", "set_write2"}
        /\ cache_files' = write(cache_files, pr.fd,
                                IF pr.pc = "set_write1" THEN 1 ELSE 2, pr.entry)
        /\ cache_procs' = [cache_procs EXCEPT
               ![p].pc = IF pr.pc = "set_write1" THEN "set_write2" ELSE "set_rename",
               ![p].fd = IF pr.pc = "set_write1" THEN pr.fd ELSE NoFd]
        /\ UNCHANGED << cache_dir, cache_obs, clock >>
        /\ UNCHANGED << orch_vars, guard_vars, librarian, app >>

\* temp_path.replace(cache_path) and return True; without a file at
\* temp_path it raises FileNotFoundError and set returns False.
SetRename(p) ==
    LET pr == cache_procs[p]
        real == _cache_path(pr.key)
        tmp == temp_path(real)
    IN  /\ pr.pc = "set_rename"
        /\ IF cache_files[tmp].kind = "absent"
           THEN /\ EndCall(cache_procs, p, "set", Result("false_replace", NoData))
                /\ UNCHANGED cache_files
           ELSE /\ cache_files' = rename(cache_files, tmp, real)
                /\ EndCall(rename_fds(cache_procs, tmp, real), p, "set",
                           Result("true", NoData))
        /\ UNCHANGED << cache_dir, clock >>
        /\ UNCHANGED << orch_vars, guard_vars, librarian, app >>

\* ---- get(level, identifier), lines 70-103
\* The call up to cache_path.exists(): None at once without a file.
GetStart(p, k) ==
    /\ cache_procs[p].pc = "idle"
    /\ cache_obs.ops < MaxOps
    /\ LET pr == [IdleProc EXCEPT !.pc = "get_read", !.key = k,
                                  !.alone = OthersIdle(p),
                                  !.follows = cache_obs.quiet /\ OthersIdle(p),
                                  !.before = cache_files[_cache_path(k)]]
       IN  IF cache_files[_cache_path(k)].kind = "absent"
           THEN /\ cache_obs' = [cache_obs EXCEPT
                       !.ops = @ + 1, !.prev = Earlier(cache_obs.last),
                       !.last = OpRecord("get", p, k, NoData, Result("miss", NoData),
                                         pr.alone, pr.own_key, pr.follows, Absent),
                       !.quiet = TRUE]
                /\ cache_procs' = Disturbed(cache_procs, k)
           ELSE /\ cache_obs' = [cache_obs EXCEPT !.ops = @ + 1, !.quiet = FALSE]
                /\ cache_procs' = [Disturbed(cache_procs, k) EXCEPT ![p] = pr]
    /\ UNCHANGED << cache_files, cache_dir, clock >>
    /\ UNCHANGED << orch_vars, guard_vars, librarian, app >>

\* The try block: the data of a valid entry is returned; an expired or
\* unreadable one is to be removed; an exception that the except clause does
\* not name leaves get().
GetRead(p) ==
    LET pr == cache_procs[p]
        r == get_read(cache_files[_cache_path(pr.key)], pr.key[1], clock)
    IN  /\ pr.pc = "get_read"
        /\ IF r.outcome = "hit"
           THEN EndCall(cache_procs, p, "get", Result("hit", r.data))
           ELSE IF r.outcome = "raise"
           THEN EndCall(cache_procs, p, "get", Result("raise", NoData))
           ELSE /\ cache_procs' = [cache_procs EXCEPT ![p].pc = "get_unlink"]
                /\ UNCHANGED cache_obs
        /\ UNCHANGED << cache_files, cache_dir, clock >>
        /\ UNCHANGED << orch_vars, guard_vars, librarian, app >>

\* _remove_cache_file, lines 146-147: whatever is at the real path now is
\* unlinked.
GetUnlink(p) ==
    LET pr == cache_procs[p]
        real == _cache_path(pr.key)
    IN  /\ pr.pc = "get_unlink"
        /\ cache_files' = unlink(cache_files, real)
        /\ cache_procs' = [unlink_fds(cache_procs, real) EXCEPT ![p].pc = "get_rmdir"]
        /\ UNCHANGED << cache_dir, cache_obs, clock >>
        /\ UNCHANGED << orch_vars, guard_vars, librarian, app >>

\* _remove_cache_file, lines 150-154: the shard directory is removed if it
\* is empty; get returns None.
GetRmdir(p) ==
    /\ cache_procs[p].pc = "get_rmdir"
    /\ cache_dir' = (cache_dir /\ ~DirEmpty(cache_files))
    /\ EndCall(cache_procs, p, "get", Result("miss", NoData))
    /\ UNCHANGED << cache_files, clock >>
    /\ UNCHANGED << orch_vars, guard_vars, librarian, app >>

\* ---- the environment
\* A process dies inside set(); the files stay as they are.
Crash(p) ==
    /\ cache_procs[p].pc \in {"set_open", "set_write1", "set_write2", "set_rename"}
    /\ cache_obs.faults < MaxFaults
    /\ cache_procs' = [cache_procs EXCEPT ![p] = IdleProc]
    /\ cache_obs' = [cache_obs EXCEPT
           !.faults = @ + 1, !.prev = Earlier(cache_obs.last),
           !.last = OpRecord("set", p, cache_procs[p].key, cache_procs[p].payload,
                             Result("crash", NoData), cache_procs[p].alone,
                             cache_procs[p].own_key, cache_procs[p].follows,
                             cache_procs[p].before),
           !.quiet = TRUE]
    /\ UNCHANGED << cache_files, cache_dir, clock >>
    /\ UNCHANGED << orch_vars, guard_vars, librarian, app >>

\* Between two calls, the file of an entry is damaged from outside.
Damage(k, kind) ==
    /\ cache_obs # << >>
    /\ AllIdle
    /\ cache_obs.ops < MaxOps
    /\ cache_obs.faults < MaxFaults
    /\ cache_files[_cache_path(k)].kind # "absent"
    /\ cache_files' = [cache_files EXCEPT ![_cache_path(k)] = File(kind, NoChunk, NoChunk)]
    /\ cache_obs' = [cache_obs EXCEPT !.faults = @ + 1, !.quiet = FALSE,
                                      !.touched = @ \cup {k}]
    /\ UNCHANGED << cache_dir, cache_procs, clock >>
    /\ UNCHANGED << orch_vars, guard_vars, librarian, app >>

\* Between two calls, a day passes.
CacheTick ==
    /\ cache_obs # << >>
    /\ AllIdle
    /\ cache_obs.ops < MaxOps
    /\ clock < MaxTime
    /\ clock' = clock + 1
    /\ cache_obs' = [cache_obs EXCEPT !.quiet = FALSE]
    /\ UNCHANGED << cache_files, cache_dir, cache_procs >>
    /\ UNCHANGED << orch_vars, guard_vars, librarian, app >>

NextCache ==
    \/ \E p \in Procs : \E k \in KeysOf(p) : SetStart(p, k)
    \/ \E p \in Procs : SetOpen(p)
    \/ \E p \in Procs : SetWrite(p)
    \/ \E p \in Procs : SetRename(p)
    \/ \E p \in Procs : \E k \in KeysOf(p) : GetStart(p, k)
    \/ \E p \in Procs : GetRead(p)
    \/ \E p \in Procs : GetUnlink(p)
    \/ \E p \in Procs : GetRmdir(p)
    \/ \E p \in Procs : Crash(p)
    \/ \E k \in CacheKeys, kind \in CorruptKinds : Damage(k, kind)
    \/ CacheTick

SpecCache == InitCache /\ [][NextCache]_vars

\* ------------------------------------------------------- bulk operations
\* cache/research_cache.py, clear_level, clear_all and clear_expired.  One
\* ResearchCacheManager on a cache directory of three entries, two of the
\* level "search" and one of the level "content"; every call is one action.

\* Largest number of cache calls in a behaviour of the bulk operations.
MaxBulkOps == 3

BulkKeys == CacheKeys \cup { _cache_key("search", "c") }
BulkPaths == { _cache_path(k) : k \in BulkKeys } \cup
             { temp_path(_cache_path(k)) : k \in BulkKeys }
\* rglob("*.json"): the files of the directory whose name ends in .json.
rglob_json(files) == { path \in DOMAIN files : path[2] = "json" /\ files[path].kind # "absent" }

\* The 'cache_level' field of the document in a file.
cache_level(file) == file.c1.cache_key[1]

\* get() as a whole on the directory files at time now: the result, and the
\* directory it leaves (an expired or unreadable file is removed).
get(files, cache_key, now) ==
    LET path == _cache_path(cache_key)
        r == get_read(files[path], cache_key[1], now)
    IN  IF files[path].kind = "absent"
        THEN [files |-> files, result |-> Result("miss", NoData)]
        ELSE IF r.outcome = "hit"
        THEN [files |-> files, result |-> Result("hit", r.data)]
        ELSE IF r.outcome = "raise"
        THEN [files |-> files, result |-> Result("raise", NoData)]
        ELSE [files |-> unlink(files, path), result |-> Result("miss", NoData)]

\* The body of the loop of clear_level for one file: the file is removed and
\* counted ("remove"), left alone ("keep"), or an exception the except
\* clause does not name leaves clear_level ("raise": the .get of a document
\* that is no JSON object is an AttributeError).
clear_level_file(file, level) ==
    IF file.kind = "unparsable" \/ (file.kind = "written" /\ ~Complete(file))
    THEN "remove"
    ELSE IF file.kind = "not_object" THEN "raise"
    ELSE IF cache_level(file) = level THEN "remove" ELSE "keep"

\* The body of the loop of clear_expired for one file at current_time: the
\* subscript ['cached_at'] of a document that is no JSON object is a
\* TypeError, which the except clause does not name.
clear_expired_file(file, current_time) ==
    IF file.kind = "unparsable" \/ (file.kind = "written" /\ ~Complete(file))
    THEN "remove"
    ELSE IF file.kind = "not_object" THEN "raise"
    ELSE IF current_time - file.c1.cached_at > ttl_settings(cache_level(file))
    THEN "remove" ELSE "keep"

\* A loop "for cache_file in rglob: body" whose body has the verdict
\* verdict[path] on each file: the directories it can leave and what it
\* returns.  Without a raising file every file is visited and the number of
\* removed files is returned; otherwise the files visited before the first
\* raising one (the order of rglob is that of the directory listing, any
\* order) are handled and the exception leaves the loop.
sweep(files, verdict) ==
    LET found == rglob_json(files)
        raising == { path \in found : verdict[path] = "raise" }
        removed(visited) == { path \in visited : verdict[path] = "remove" }
        after(visited) == [path \in DOMAIN files |->
                              IF path \in removed(visited) THEN Absent ELSE files[path]]
    IN  IF raising = {}
        THEN { [files |-> after(found), raised |-> FALSE,
                cleared |-> Cardinality(removed(found))] }
        ELSE { [files |-> after(visited), raised |-> TRUE, cleared |-> 0] :
                 visited \in SUBSET (found \ raising) }

clear_level(files, level) ==
    sweep(files, [path \in DOMAIN files |-> clear_level_file(files[path], level)])
clear_expired(files, current_time) ==
    sweep(files, [path \in DOMAIN files |-> clear_expired_file(files[path], current_time)])
\* clear_all: the number of .json files, then rmtree and mkdir (on a
\* directory the process may write, where rmtree raises no OSError).
clear_all(files) ==
    [files |-> [path \in DOMAIN files |-> Absent], raised |-> FALSE,
     cleared |-> Cardinality(rglob_json(files))]

\* Observations of the bulk operations: the numbers of calls and of faults,
\* and the call that ended last with no file damaged since: its name and
\* argument, the directory and the time when it started, whether it raised,
\* and the number it returned.
BulkCall(op, arg, before, at, raised_, cleared) ==
    [op |-> op, arg |-> arg, before |-> before, at |-> at, raised |-> raised_,
     cleared |-> cleared]
NoBulkCall == BulkCall(None, None, << >>, 0, FALSE, 0)

InitBulk ==
    /\ step_budget = MaxBudget
    /\ OrchIdle
    /\ NoGuards
    /\ NoLibrarian
    /\ NoApp
    /\ clock = 0
    /\ cache_dir = TRUE
    /\ cache_procs = [p \in Procs |-> IdleProc]
    /\ \E stored \in SUBSET BulkKeys :
          cache_files = [path \in BulkPaths |->
              IF path[2] = "json" /\ path[1] \in stored
              THEN File("written", StoredBefore(path[1]), StoredBefore(path[1]))
              ELSE Absent]
    /\ cache_obs = [ops |-> 0, faults |-> 0, last |-> NoBulkCall]

BulkDone(op, arg, o) ==
    /\ cache_files' = o.files
    /\ cache_obs' = [cache_obs EXCEPT
           !.ops = @ + 1,
           !.last = BulkCall(op, arg, cache_files, clock, o.raised, o.cleared)]
    /\ UNCHANGED << cache_dir, cache_procs, clock >>
    /\ UNCHANGED << orch_vars, guard_vars, librarian, app >>

\* set(level, identifier, data) as a whole: the document is at the real path.
BulkSet(k) ==
    LET entry == cache_entry(clock, k, PayloadOf("p1"))
    IN  /\ cache_obs.ops < MaxBulkOps
        /\ BulkDone("set", k, [files |-> [cache_files EXCEPT ![_cache_path(k)] =
                                              File("written", entry, entry)],
                               raised |-> FALSE, cleared |-> 0])

BulkGet(k) ==
    LET g == get(cache_files, k, clock)
    IN  /\ cache_obs.ops < MaxBulkOps
        /\ BulkDone("get", k, [files |-> g.files, raised |-> g.result.kind = "raise",
                               cleared |-> 0])

ClearLevel(level) ==
    /\ cache_obs.ops < MaxBulkOps
    /\ \E o \in clear_level(cache_files, level) : BulkDone("clear_level", level, o)

ClearAll ==
    /\ cache_obs.ops < MaxBulkOps
    /\ BulkDone("clear_all", None, clear_all(cache_files))

ClearExpired ==
    /\ cache_obs.ops < MaxBulkOps
    /\ \E o \in clear_expired(cache_files, clock) : BulkDone("clear_expired", None, o)

\* Between two calls, the file of an entry is damaged from outside.
BulkDamage(k, kind) ==
    /\ cache_obs.ops < MaxBulkOps
    /\ cache_obs.faults < MaxFaults
    /\ cache_files[_cache_path(k)].kind # "absent"
    /\ cache_files' = [cache_files EXCEPT ![_cache_path(k)] = File(kind, NoChunk, NoChunk)]
    /\ cache_obs' = [cache_obs EXCEPT !.faults = @ + 1, !.last = NoBulkCall]
    /\ UNCHANGED << cache_dir, cache_procs, clock >>
    /\ UNCHANGED << orch_vars, guard_vars, librarian, app >>

\* Between two calls, a day passes.
BulkTick ==
    /\ cache_obs.ops < MaxBulkOps
    /\ clock < MaxTime
    /\ clock' = clock + 1
    /\ UNCHANGED << cache_files, cache_dir, cache_procs, cache_obs >>
    /\ UNCHANGED << orch_vars, guard_vars, librarian, app >>

NextBulk ==
    \/ \E k \in BulkKeys : BulkSet(k)
    \/ \E k \in BulkKeys : BulkGet(k)
    \/ \E level \in CacheLevels : ClearLevel(level)
    \/ ClearAll
    \/ ClearExpired
    \/ \E k \in BulkKeys, kind \in CorruptKinds : BulkDamage(k, kind)
    \/ BulkTick

SpecBulk == InitBulk /\ [][NextBulk]_vars

\* ========================================================= LibrarianAgent
\* agents/base.py, LibrarianAgent.run: one call, followed from the offline
\* test through the searches and the loop over the URLs to the AgentOutput.

\* Largest number of distinct candidate URLs.
MaxUrls == 11

\* The number of URLs to which line 201 limits the loop.
url_cap == 10

\* The values of spec.research_context.max_documents (default 10).
MaxDocumentsValues == {1, 3, 10}

\* URLs are numbered: the list of the first n URLs.
FirstUrls(n) == [i \in 1..n |-> i]

\* all_urls: the URLs of the search results of all queries followed by
\* spec.research_context.search_domains, which may repeat some of them.
CandidateLists == { FirstUrls(n) \o FirstUrls(m) : n \in 0..MaxUrls, m \in {0, 2} }

\* list(dict.fromkeys(all_urls)): duplicates removed, first occurrences kept
\* in order.
RECURSIVE dict_fromkeys(_)
dict_fromkeys(urls) ==
    IF urls = << >> THEN << >>
    ELSE LET front == dict_fromkeys(SubSeq(urls, 1, Len(urls) - 1))
             last == urls[Len(urls)]
         IN  IF \E i \in 1..Len(front) : front[i] = last
             THEN front
             ELSE Append(front, last)

Min(a, b) == IF a <= b THEN a ELSE b

\* Line 201: max_docs = min(10, len(unique_urls)).
max_docs(unique_urls) == Min(url_cap, Len(unique_urls))

\* What can happen to one URL in the loop body (lines 204-278):
\*   cached          get_research_document returns a document
\*   not_http        the URL starts with neither http:// nor https://
\*   raises          the cache, the fetch or the processing raises (a URL
\*                   disallowed by robots.txt, a failing adapter, ...)
\*   status_not_200  fetch returns a response whose status is not 200, as
\*                   PlaywrightBrowserAdapter.fetch does (status 500) for any
\*                   error while loading the page
\*   empty_text      extract returns no text
\*   document        a document is built (an embeddings error is swallowed)
UrlOutcomes == {"cached", "not_http", "raises", "status_not_200", "empty_text",
                "document"}

\* The outcomes in which fetching or processing the URL has failed.
FailedOutcomes == {"raises", "status_not_200"}

NoAgentOutput == [action |-> None, status |-> PyStr("none"), urls_processed |-> 0,
                  documents_fetched |-> 0, errors |-> 0]

\* The call when it starts.
LibrarianCalled(off, max_documents, all_urls) ==
    [pc |-> "start", offline |-> off, max_documents |-> max_documents,
     all_urls |-> all_urls, unique_urls |-> << >>, max_docs |-> 0, i |-> 0,
     research_docs |-> 0, fetched_count |-> 0, error_count |-> 0,
     failed |-> 0, output |-> NoAgentOutput]

\* One pass of the loop body for a URL with the given outcome: the locals
\* afterwards (failed counts the URLs whose fetch or processing failed; the
\* program does not read it).
process_url(l, outcome) ==
    [l EXCEPT !.i = @ + 1,
              !.research_docs = IF outcome \in {"cached", "document"} THEN @ + 1 ELSE @,
              !.fetched_count = IF outcome \in {"cached", "document"} THEN @ + 1 ELSE @,
              !.error_count = IF outcome = "raises" THEN @ + 1 ELSE @,
              !.failed = IF outcome \in FailedOutcomes THEN @ + 1 ELSE @]

\* The AgentOutput of lines 283-295.
research_completed(l) ==
    [action |-> "research_completed", status |-> EnumValue(Status_OK),
     urls_processed |-> Len(SubSeq(l.unique_urls, 1, l.max_docs)),
     documents_fetched |-> l.fetched_count, errors |-> l.error_count]

InitLibrarian ==
    /\ step_budget = MaxBudget
    /\ OrchIdle
    /\ NoGuards
    /\ NoCache
    /\ NoApp
    /\ clock = 0
    /\ \E off \in BOOLEAN, md \in MaxDocumentsValues, urls \in CandidateLists :
          librarian = LibrarianCalled(off, md, urls)

\* Lines 123-201: offline, the call returns at once; a search that raises
\* ends the call in the outer except clause with status "fail"; otherwise
\* the URLs are collected, deduplicated and limited.
LibrarianStart(search_ok) ==
    /\ librarian # << >>
    /\ librarian.pc = "start"
    /\ librarian' =
         IF librarian.offline
         THEN [librarian EXCEPT !.pc = "returned",
                 !.output = [NoAgentOutput EXCEPT !.action = "skipped_research",
                                                  !.status = EnumValue(Status_OK)]]
         ELSE IF ~search_ok
         THEN [librarian EXCEPT !.pc = "returned",
                 !.output = [NoAgentOutput EXCEPT !.action = "research_failed",
                                                  !.status = EnumValue(Status_FAIL)]]
         ELSE LET unique_urls == dict_fromkeys(librarian.all_urls)
              IN  [librarian EXCEPT !.pc = "loop", !.unique_urls = unique_urls,
                                    !.max_docs = max_docs(unique_urls)]
    /\ UNCHANGED << orch_vars, guard_vars, clock, cache_vars, app >>

\* Lines 203-278: the loop body for the next URL.
LibrarianUrl(outcome) ==
    /\ librarian # << >>
    /\ librarian.pc = "loop"
    /\ librarian.i < librarian.max_docs
    /\ librarian' = process_url(librarian, outcome)
    /\ UNCHANGED << orch_vars, guard_vars, clock, cache_vars, app >>

\* Lines 280-295: the loop has ended.
LibrarianReturn ==
    /\ librarian # << >>
    /\ librarian.pc = "loop"
    /\ librarian.i = librarian.max_docs
    /\ librarian' = [librarian EXCEPT !.pc = "returned",
                                      !.output = research_completed(librarian)]
    /\ UNCHANGED << orch_vars, guard_vars, clock, cache_vars, app >>

NextLibrarian ==
    \/ \E search_ok \in BOOLEAN : LibrarianStart(search_ok)
    \/ \E outcome \in UrlOutcomes : LibrarianUrl(outcome)
    \/ LibrarianReturn

SpecLibrarian == InitLibrarian /\ [][NextLibrarian]_vars

\* ============================================================== StudioApp
\* app.py, StudioApp.generate and _create_orchestrator, and
\* guards/network_guards.py, enforce_offline_mode: the calls of generate()
\* one process makes, one after the other.

\* Largest number of calls of generate() in a behaviour.
MaxGenerate == 3

\* The module globals of network_guards and the two library functions it
\* patches, when the module has been imported: offline mode is off,
\* socket.create_connection and PoolManager.request are the originals, and
\* no original request has been saved.
Globals ==
    [_offline_mode_enabled |-> FALSE, create_connection |-> "original",
     request |-> "original", _original_urllib3_request |-> None]

\* enforce_offline_mode(enabled), lines 12-35.
enforce_offline_mode(g, enabled) ==
    IF enabled
    THEN [g EXCEPT !._offline_mode_enabled = TRUE,
                   !.create_connection = "blocked",
                   !._original_urllib3_request = IF @ = None THEN g.request ELSE @,
                   !.request = "blocked"]
    ELSE [g EXCEPT !._offline_mode_enabled = FALSE,
                   !.create_connection = "original",
                   !.request = IF g._original_urllib3_request # None
                               THEN g._original_urllib3_request ELSE @]

\* is_offline_mode_enabled()
is_offline_mode_enabled(g) == g._offline_mode_enabled

\* A finished call of generate(): its offline argument, how it ended, and
\* what the process-wide state was while orchestrator.run ran.
GenerateCall(off, outcome, g) ==
    [offline |-> off, outcome |-> outcome,
     offline_mode |-> is_offline_mode_enabled(g),
     blocked |-> g.create_connection = "blocked" \/ g.request = "blocked"]

InitApp ==
    /\ step_budget = MaxBudget
    /\ OrchIdle
    /\ NoGuards
    /\ NoCache
    /\ NoLibrarian
    /\ clock = 0
    /\ app = [globals |-> Globals, pc |-> "idle", offline |-> FALSE, calls |-> << >>]

\* generate(), lines 34-51: the RunContext is built and the spec validated;
\* an invalid spec ends the call with ValueError.
GenerateStart(off, valid) ==
    /\ app.pc = "idle"
    /\ Len(app.calls) < MaxGenerate
    /\ app' = IF valid
              THEN [app EXCEPT !.pc = "create", !.offline = off]
              ELSE [app EXCEPT !.calls = Append(@, GenerateCall(off, "ValueError",
                                                                app.globals))]
    /\ UNCHANGED << orch_vars, guard_vars, clock, cache_vars, librarian >>

\* _create_orchestrator, lines 102-117: with ctx.offline the network block is
\* installed; without it nothing is done to the network guards.
CreateOrchestrator ==
    /\ app.pc = "create"
    /\ app' = [app EXCEPT !.pc = "run",
                          !.globals = IF app.offline THEN enforce_offline_mode(@, TRUE)
                                      ELSE @]
    /\ UNCHANGED << orch_vars, guard_vars, clock, cache_vars, librarian >>

\* generate(), line 57: orchestrator.run returns the index or raises; no
\* statement follows it.
RunOrchestrator(outcome) ==
    /\ app.pc = "run"
    /\ app' = [app EXCEPT !.pc = "idle",
                          !.calls = Append(@, GenerateCall(app.offline, outcome,
                                                           app.globals))]
    /\ UNCHANGED << orch_vars, guard_vars, clock, cache_vars, librarian >>

NextApp ==
    \/ \E off \in BOOLEAN, valid \in BOOLEAN : GenerateStart(off, valid)
    \/ CreateOrchestrator
    \/ \E outcome \in {"returned", "raised"} : RunOrchestrator(outcome)

SpecApp == InitApp /\ [][NextApp]_vars

\* ------------------------------------------------------------ type check
TypeOK ==
    /\ step_budget \in StepBudgets \cup {default_step_budget}
    /\ step_count \in 0..(MaxBudget + 1)
    /\ attempt \in 0..max_retries
    /\ saves \in 0..1
    /\ nonok \in 0..MaxNonOk

\* ===================================================== observations used
\* by the properties below
EventTypes(log) == [i \in 1..Len(log) |-> log[i].event_type]
CountEvents(log, t) == Cardinality({ i \in 1..Len(log) : log[i].event_type = t })
Invocations(step) == Cardinality({ i \in 1..Len(trace) : trace[i].step = step })
RunEnded == pc \in {"returned", "raised"}
RetryStageEnded == retry_hist.outcome \in {"returned", "raised"}

\* ------------------------------------------------------------------- C1
\* C1: for any step budget B, the number of step functions executed through
\* the step executor in a run, every retry attempt counted, never exceeds B.
C1_BudgetBoundsInvocations == Len(trace) <= step_budget

\* ------------------------------------------------------------------- C2
\* The sleeps a permanently failing retryable stage makes: T, 2T, ..., T*2^(N-1).
C2_ExpectedSleeps == [i \in 1..max_retries |-> base_backoff_sec * (2 ^ (i - 1))]

\* C2: a retryable stage that fails on every attempt is attempted exactly
\* max_retries + 1 times, sleeps T, 2T, 4T, ... between consecutive attempts
\* (never before the first attempt nor after the last), and raises to run()
\* the very exception of its last attempt.
C2_RetryDeterminism ==
    /\ retry_hist.stage # None =>
          Len(retry_hist.sleeps) = retry_hist.attempts - 1
    /\ retry_hist.outcome = "raised" =>
          /\ retry_hist.attempts = max_retries + 1
          /\ retry_hist.executed \in {0, max_retries + 1}
          /\ retry_hist.sleeps = C2_ExpectedSleeps
          /\ pc = "raised"
          /\ raised = retry_hist.last_exc
          /\ raised.step = retry_hist.stage
          /\ raised.attempt = max_retries + 1

\* C2 witness: a retryable stage whose step function ran and failed on each
\* of its max_retries + 1 attempts.
C2_Witness ==
    /\ retry_hist.outcome = "raised"
    /\ retry_hist.executed = max_retries + 1
    /\ raised.type \in {"AgentError", "RenderError", "StepTimeoutException"}

\* ------------------------------------------------------------------- C3
\* C3: after a retryable stage whose step function was attempted k times, the
\* step counter is exactly k higher than before the stage.
C3_EveryAttemptConsumesSlot ==
    RetryStageEnded => step_count = retry_hist.entry_count + retry_hist.executed

\* ------------------------------------------------------------------- C4
\* C4: when an agent returns an output with status "fail", _run_agent raises
\* a RuntimeError at once: the step ends with that error, and outside a
\* retryable stage run() has raised it, so that no later stage runs.
C4_AgentFailRaises ==
    PyEq(last_status, PyStr("fail")) =>
        IF retry_hist.stage # None
        THEN retry_hist.last_exc.type = "RuntimeError"
        ELSE pc = "raised" /\ raised.type = "RuntimeError"

\* ------------------------------------------------------------------- C5
\* The condition under which the Research stage is to run.
C5_GuardAdmits == offline = FALSE /\ audience_mode \in {"balanced", "deep"}

\* The frame_spec step has completed and run() has gone past the guard of
\* the Research state, which only pack types balanced and both reach.
C5_PastResearchGuard ==
    /\ pack \in {"balanced", "both"}
    /\ \E i \in 1..Len(audit_events) :
          /\ audit_events[i].event_type = "step_complete"
          /\ audit_events[i].stage = "frame_spec"
    /\ pc # "research_content"

\* Every stage of the run returned with status "ok": run() returned and no
\* agent reported "retry" or "fail".
C5_AllStagesSucceeded == pc = "returned" /\ nonok = 0

\* C5 as stated: in every run the librarian is invoked only if offline is
\* false and the audience mode is balanced or deep; otherwise it is never
\* invoked, a state_skip event is logged instead, and the run, when its other
\* stages succeed, returns a non-empty ArtifactIndex.
C5_Original ==
    /\ Invocations("research_content") > 0 => C5_GuardAdmits
    /\ (pc = "returned" /\ ~C5_GuardAdmits) =>
          /\ Invocations("research_content") = 0
          /\ CountEvents(audit_file.lines, "state_skip") >= 1
          /\ C5_AllStagesSucceeded => Len(result.artifacts) > 0

\* C5 amended: the librarian is invoked only if offline is false and the
\* audience mode is balanced or deep; otherwise it is never invoked; the
\* state_skip event is logged (once) exactly when the guard fails in a run of
\* pack type balanced or both that has passed Frame, and never in a deep-only
\* run; every run whose stages all succeed returns a non-empty ArtifactIndex.
C5_ResearchGuard ==
    /\ Invocations("research_content") > 0 => C5_GuardAdmits
    /\ CountEvents(audit_events, "state_skip") =
          (IF C5_PastResearchGuard /\ ~C5_GuardAdmits THEN 1 ELSE 0)
    /\ (pc = "returned" /\ ~C5_GuardAdmits) =>
          /\ Invocations("research_content") = 0
          /\ CountEvents(audit_file.lines, "state_skip") =
                (IF pack \in {"balanced", "both"} THEN 1 ELSE 0)
    /\ C5_AllStagesSucceeded => Len(result.artifacts) > 0

\* C5 witness: an offline balanced run in which every stage succeeded.
C5_Witness ==
    /\ C5_AllStagesSucceeded
    /\ offline
    /\ pack = "balanced"
    /\ CountEvents(audit_file.lines, "state_skip") = 1
    /\ Len(result.artifacts) > 0

\* ------------------------------------------------------------------- C6
\* C6: if the framer returned an updated_spec, every step function executed
\* after Frame received that spec, never the spec passed to run().
C6_SpecThreading ==
    framed # None =>
        \A i \in 1..Len(trace) :
            trace[i].step \notin {"validate_spec", "frame_spec"} =>
                trace[i].spec = framed /\ trace[i].spec # spec_in

\* C6 witness: a completed run of pack type both whose framer updated the spec.
C6_Witness ==
    /\ framed = "spec_framed"
    /\ pc = "returned"
    /\ pack = "both"
    /\ trace[Len(trace)].step = "package_outputs"
    /\ trace[Len(trace)].spec = "spec_framed"

\* ------------------------------------------------------------------- C7
C7_Balanced(research) ==
    (IF research THEN << "research_content" >> ELSE << >>)
    \o << "write_prd", "generate_diagrams", "design_tests", "create_roadmap",
          "render_packs" >>
C7_Deep ==
    << "generate_threat_model", "generate_accessibility_plan",
       "generate_observability_plan", "generate_runbooks", "generate_slos",
       "generate_adrs", "generate_ci_workflow", "generate_contracts" >>
C7_ExpectedOrder ==
    << "validate_spec", "frame_spec" >>
    \o (IF pack \in {"balanced", "both"} THEN C7_Balanced(C5_GuardAdmits) ELSE << >>)
    \o (IF pack \in {"deep", "both"} THEN C7_Deep ELSE << >>)
    \o << "package_outputs" >>
C7_AllFirstAttempt == \A i \in 1..Len(trace) : trace[i].attempt <= 1

\* C7: a run in which every stage succeeds on its first attempt executes each
\* stage once, in the fixed order (balanced stages before deep stages for
\* pack type both); and in every run Package is the last stage executed.
C7_StageOrder ==
    /\ (pc = "returned" /\ C7_AllFirstAttempt) => StepsOf(trace) = C7_ExpectedOrder
    /\ pc = "returned" => trace[Len(trace)].step = "package_outputs"
    /\ \A i \in 1..Len(trace) :
          trace[i].step = "package_outputs" => i = Len(trace)

\* C7 witness: a completed first-attempt run of pack type both with Research.
C7_Witness ==
    /\ pc = "returned"
    /\ C7_AllFirstAttempt
    /\ pack = "both"
    /\ C5_GuardAdmits
    /\ Len(trace) = 17

\* ------------------------------------------------------------------- C8
\* C8: when a stage raises (a retryable stage: after its last attempt), the
\* raising step is the last one executed, exactly one pipeline_error event is
\* recorded (as the last event), the exception is re-raised to the caller,
\* and no ArtifactIndex is published whatever the blackboard holds.
C8_FailureAborts ==
    /\ pc = "raised" =>
          /\ raised # NoExc
          /\ result = None
          /\ CountEvents(audit_events, "pipeline_error") = 1
          /\ audit_events[Len(audit_events)].event_type = "pipeline_error"
          /\ CountEvents(audit_events, "pipeline_complete") = 0
          /\ raised.type # "BudgetExceededException" =>
                /\ trace # << >>
                /\ trace[Len(trace)].step = raised.step
                /\ trace[Len(trace)].attempt = raised.attempt
          /\ raised.step \in RetryableSteps => raised.attempt = max_retries + 1
    /\ pc # "raised" =>
          /\ raised = NoExc
          /\ CountEvents(audit_events, "pipeline_error") = 0

\* C8 witness: a run aborted by a stage after artifacts had been added to the
\* blackboard.
C8_Witness ==
    /\ pc = "raised"
    /\ raised.type = "AgentError"
    /\ Len(blackboard) > 0
    /\ result = None

\* ------------------------------------------------------------------- C9
\* C9: every run flushes its audit log exactly once, when it ends; the file
\* then is non-empty, holds one pipeline_start and exactly one of
\* pipeline_complete (run returned) and pipeline_error (run raised), and all
\* of its records carry the run id of the run.
C9_AuditFlushedOnce ==
    /\ ~RunEnded => saves = 0 /\ audit_file = NoFile
    /\ RunEnded =>
          /\ saves = 1
          /\ audit_file.exists
          /\ audit_file.lines # << >>
          /\ Len(audit_file.lines) = Len(audit_events)
          /\ audit_file.lines[1].event_type = "pipeline_start"
          /\ CountEvents(audit_file.lines, "pipeline_start") = 1
          /\ CountEvents(audit_file.lines, "pipeline_complete") =
                (IF pc = "returned" THEN 1 ELSE 0)
          /\ CountEvents(audit_file.lines, "pipeline_error") =
                (IF pc = "raised" THEN 1 ELSE 0)
          /\ \A i \in 1..Len(audit_file.lines) : audit_file.lines[i].run_id = run_id

\* C9 witness: a run that returned and one that raised have both been flushed;
\* this is the returned one.
C9_Witness ==
    /\ pc = "returned"
    /\ saves = 1
    /\ CountEvents(audit_file.lines, "pipeline_complete") = 1

\* ------------------------------------------------------------------ C10
\* Schema validation failed in the Validate stage.
C10_ValidationFailed == pc = "raised" /\ raised.type = "ValueError"

\* C10 as stated: when validation fails no other stage and no agent is
\* executed and nothing is written for the run except a pipeline-error audit
\* event.
C10_Original ==
    C10_ValidationFailed =>
        /\ StepsOf(trace) = << "validate_spec" >>
        /\ blackboard = << >>
        /\ out_files = {}
        /\ \A i \in 1..Len(audit_file.lines) :
              audit_file.lines[i].event_type = "pipeline_error"

\* C10 amended: when validation fails, run() raises at once: no other stage
\* and no agent is executed, no artifact is produced or written, and the only
\* thing written is the audit log, which holds pipeline_start, the validate
\* step's step_start and step_error, and one pipeline_error.
C10_ValidationFailureAborts ==
    C10_ValidationFailed =>
        /\ StepsOf(trace) = << "validate_spec" >>
        /\ raised.step = "validate_spec"
        /\ step_count = 0
        /\ blackboard = << >>
        /\ out_files = {}
        /\ result = None
        /\ EventTypes(audit_file.lines) =
              << "pipeline_start", "step_start", "step_error", "pipeline_error" >>

\* C10 witness: a run whose spec failed validation.
C10_Witness ==
    /\ C10_ValidationFailed
    /\ Len(audit_file.lines) = 4

\* ------------------------------------------------------------------ C11
\* C11: the step counter is per run: every call of run() starts with the
\* counter at zero, and a call is refused for budget only after that call
\* itself has executed step_budget step functions.
C11_CounterPerRun ==
    /\ pc = "validate_spec" => step_count = 0
    /\ raised.type = "BudgetExceededException" => Len(trace) >= step_budget

\* ------------------------------------------------------------------ C18
\* C18: check_url_allowed raises the domain-limit error exactly when the
\* number of record_successful_fetch calls for the URL's domain, since the
\* guard was constructed or last reset, has reached max_docs_per_domain; and
\* the quota a guard has consumed for a domain is at every moment that number
\* of recorded fetches, whatever checks, rate-limit calls and calls on other
\* domains or other guards were made.
C18_QuotaBySuccess ==
    /\ guard_obs # << >> /\ guard_obs.op = "check_url_allowed" =>
          (guard_obs.raises = "domain_limit"
              <=> guard_obs.recorded_before >= max_docs_per_domain)
    /\ guard_obs # << >> =>
          \A g \in GuardIds, d \in Domains :
              DictGet(domain_request_count[g], d, 0) = guard_obs.recorded[g][d]

\* A check is refused for a domain whose quota is used up by recorded
\* fetches, while the other guard's quota for the domain is untouched.
C18_Witness ==
    /\ guard_obs # << >>
    /\ guard_obs.op = "check_url_allowed"
    /\ guard_obs.raises = "domain_limit"
    /\ guard_obs.recorded_before = max_docs_per_domain
    /\ \E g \in GuardIds \ {guard_obs.g} :
          guard_obs.recorded[g][DomainOf(guard_obs.url)] = 0

\* ------------------------------------------------------------------ C19
\* C19: with robots.txt checking enabled, robots.txt is fetched at most once
\* per domain and guard, and a check_url_allowed that is within the quota
\* raises the robots.txt error exactly when the domain's robots.txt disallows
\* the URL's path for all agents (never when the fetch failed), whatever was
\* checked before.
C19_RobotsPerPath ==
    guard_obs # << >> =>
      /\ \A g \in GuardIds, d \in Domains : guard_obs.fetches[g][d] <= 1
      /\ ( /\ guard_obs.op = "check_url_allowed"
           /\ respect_robots_txt[guard_obs.g]
           /\ guard_obs.raises # "domain_limit" )
         => (guard_obs.raises = "robots_txt"
                <=> RobotsDisallows(site[DomainOf(guard_obs.url)], guard_obs.url.path))

\* ------------------------------------------------------------------ C20
\* C20 as stated: any two consecutive returns of check_rate_limit for one
\* domain are at least rate_limit_delay apart, and the first call for a
\* domain does not sleep.
C20_Original ==
    guard_obs # << >> /\ guard_obs.op = "check_rate_limit" =>
      /\ guard_obs.prev_return # -1 => clock - guard_obs.prev_return >= rate_limit_delay
      /\ guard_obs.prev_return = -1 => guard_obs.slept = 0

\* C20: two consecutive returns of check_rate_limit of one guard for one
\* domain with no reset_domain_limits between them are at least
\* rate_limit_delay apart; the first call for a domain since construction or
\* the last reset does not sleep, whatever was requested from other domains;
\* and a call never sleeps longer than rate_limit_delay asks for.
C20_RateLimitSinceReset ==
    guard_obs # << >> /\ guard_obs.op = "check_rate_limit" =>
      /\ guard_obs.prev_since_reset # -1 =>
            clock - guard_obs.prev_since_reset >= rate_limit_delay
      /\ guard_obs.prev_since_reset = -1 => guard_obs.slept = 0
      /\ guard_obs.slept <= rate_limit_delay

\* A call that had to sleep because of an earlier request to the same domain,
\* after a request to the other domain.
C20_Witness ==
    /\ guard_obs # << >>
    /\ guard_obs.op = "check_rate_limit"
    /\ guard_obs.slept > 0
    /\ guard_obs.prev_since_reset # -1
    /\ \E d \in Domains \ {DomainOf(guard_obs.url)} :
          guard_obs.last_return[guard_obs.g][d] # -1

\* ---------------------------------------------------------------------------
\* ResearchCacheManager
\* ---------------------------------------------------------------------------

\* The last finished call is a get that ran alone right after a set of the
\* same key that ran alone and did not crash.
GetAfterSet ==
    /\ cache_obs # << >>
    /\ cache_obs.last.op = "get"
    /\ cache_obs.last.alone
    /\ cache_obs.last.follows
    /\ cache_obs.prev.op = "set"
    /\ cache_obs.prev.alone
    /\ cache_obs.prev.result.kind # "crash"
    /\ cache_obs.prev.key = cache_obs.last.key

\* The last finished call is a get of a key that no set ever wrote.
GetNeverSet ==
    /\ cache_obs # << >>
    /\ cache_obs.last.op = "get"
    /\ cache_obs.last.key \notin cache_obs.touched

\* C12 as stated: a get right after an undisturbed set of the same key, by
\* the same or by another cache object over the same directory, returns a
\* value equal to the payload of the set; a get of a key that was never set
\* returns the absent marker.
C12_Original ==
    /\ GetAfterSet =>
         /\ cache_obs.prev.result.kind = "true"
         /\ cache_obs.last.result = Result("hit", cache_obs.prev.payload)
    /\ GetNeverSet => cache_obs.last.result = Result("miss", NoData)

\* C12: a get right after an undisturbed set of the same key, by the same or
\* by another cache object over the same directory, returns the payload of
\* the set as JSON reads it back: the same content with every tuple turned
\* into a list, hence a value equal to the payload when the payload holds no
\* tuple; a get of a key that was never set returns the absent marker.
C12_RoundTripThroughJson ==
    /\ GetAfterSet =>
         /\ cache_obs.prev.result.kind = "true"
         /\ cache_obs.last.result.kind = "hit"
         /\ cache_obs.last.result.data.id = cache_obs.prev.payload.id
         /\ cache_obs.last.result.data.seq = "list"
         /\ cache_obs.prev.payload.seq = "list" =>
              cache_obs.last.result.data = cache_obs.prev.payload
    /\ GetNeverSet => cache_obs.last.result = Result("miss", NoData)

\* A process reads back, equal, what the other process has just stored.
C12_Witness ==
    /\ GetAfterSet
    /\ cache_obs.last.p # cache_obs.prev.p
    /\ cache_obs.prev.payload.seq = "list"
    /\ cache_obs.last.result = Result("hit", cache_obs.prev.payload)

\* The last finished call is a get that ran alone on a complete entry, and
\* nothing has happened since it returned.
GetOfEntry ==
    /\ cache_obs # << >>
    /\ cache_obs.quiet
    /\ cache_obs.last.op = "get"
    /\ cache_obs.last.alone
    /\ Complete(cache_obs.last.before)

\* The age, at the last get, of the entry it read.
AgeAtGet == clock - cache_obs.last.before.c1.cached_at

\* C13: a get of an entry older than the TTL of its level returns the absent
\* marker and removes the file; a get of an entry younger than the TTL
\* returns its payload and leaves the file; and the file of an entry
\* disappears only in the unlink step of a get of its key, never in the
\* background.
C13_ExpiryOnRead ==
    /\ [](GetOfEntry =>
            LET g == cache_obs.last
                real == _cache_path(g.key)
            IN /\ AgeAtGet > ttl_settings(g.key[1]) =>
                    /\ g.result = Result("miss", NoData)
                    /\ cache_files[real] = Absent
               /\ AgeAtGet < ttl_settings(g.key[1]) =>
                    /\ g.result = Result("hit", json_load_data(g.before.c1.data))
                    /\ cache_files[real] = g.before)
    /\ [][\A k \in CacheKeys :
             (/\ cache_obs # << >>
              /\ cache_files[_cache_path(k)] # Absent
              /\ cache_files'[_cache_path(k)] = Absent)
             => \E p \in Procs : /\ cache_procs[p].pc = "get_unlink"
                                 /\ cache_procs[p].key = k]_vars

\* A get has found an entry older than its TTL, has returned the absent
\* marker and has removed the file.
C13_Witness ==
    /\ GetOfEntry
    /\ AgeAtGet > ttl_settings(cache_obs.last.key[1])
    /\ cache_obs.last.result = Result("miss", NoData)
    /\ cache_files[_cache_path(cache_obs.last.key)] = Absent

\* The last finished call is a set that ran alone and died before its
\* replace, and nothing has happened since.
SetCrashed ==
    /\ cache_obs # << >>
    /\ cache_obs.last.op = "set"
    /\ cache_obs.last.alone
    /\ cache_obs.last.result.kind = "crash"

\* C14: a set that dies before its replace leaves the real path of the entry
\* as it was when the set started, absent or holding the previous complete
\* document; a get that follows returns the previous payload or the absent
\* marker and does not raise.
C14_CrashLeavesRealPath ==
    /\ (SetCrashed /\ cache_obs.quiet) =>
         cache_files[_cache_path(cache_obs.last.key)] = cache_obs.last.before
    /\ (/\ cache_obs # << >>
        /\ cache_obs.last.op = "get"
        /\ cache_obs.last.alone
        /\ cache_obs.last.follows
        /\ cache_obs.prev.op = "set"
        /\ cache_obs.prev.alone
        /\ cache_obs.prev.result.kind = "crash"
        /\ cache_obs.prev.key = cache_obs.last.key
        /\ cache_obs.prev.before = Absent \/ Complete(cache_obs.prev.before))
       => \/ cache_obs.last.result = Result("miss", NoData)
          \/ /\ Complete(cache_obs.prev.before)
             /\ cache_obs.last.result =
                  Result("hit", json_load_data(cache_obs.prev.before.c1.data))

\* A set over a stored entry has died with half of its document written to
\* the temporary file.
C14_Witness ==
    /\ SetCrashed
    /\ cache_obs.quiet
    /\ Complete(cache_obs.last.before)
    /\ cache_files[temp_path(_cache_path(cache_obs.last.key))].kind = "written"
    /\ ~Complete(cache_files[temp_path(_cache_path(cache_obs.last.key))])
    /\ cache_files[_cache_path(cache_obs.last.key)] = cache_obs.last.before

\* C15: a set that did not crash, while no other call for the same key was
\* under way, returns True, whatever calls for other keys ran beside it.
C15_OtherKeysDoNotInterfere ==
    (/\ cache_obs # << >>
     /\ cache_obs.last.op = "set"
     /\ cache_obs.last.own_key
     /\ cache_obs.last.result.kind # "crash")
    => cache_obs.last.result.kind = "true"

\* C16: with writers of the same key side by side, the real path of an entry
\* never holds anything but one complete document, and no writer fails in
\* its replace.
C16_LastRenameWins ==
    /\ \A k \in CacheKeys :
         cache_files[_cache_path(k)].kind = "written" =>
           Complete(cache_files[_cache_path(k)])
    /\ cache_obs # << >> => cache_obs.last.result.kind # "false_replace"

\* C17: a get that ran alone on a file that is no cache document (not
\* parsable, or parsable but not the expected object) returns the absent
\* marker without raising and removes the file.
C17_CorruptIsMiss ==
    (/\ cache_obs # << >>
     /\ cache_obs.quiet
     /\ cache_obs.last.op = "get"
     /\ cache_obs.last.alone
     /\ cache_obs.last.before.kind \in CorruptKinds)
    => /\ cache_obs.last.result = Result("miss", NoData)
       /\ cache_files[_cache_path(cache_obs.last.key)] = Absent

\* ---------------------------------------------------------------------------
\* The step executor and the retry loop
\* ---------------------------------------------------------------------------

\* The step executor has been called in this run.
ExecutorCalled == last_call.step # None

\* C24: when the step counter has reached the step budget at a call of the
\* step executor, the call raises the budget-exceeded error, the step
\* function is not invoked and the step counter stays as it was.
C24_BudgetRefusal ==
    (ExecutorCalled /\ last_call.count_before >= step_budget)
    => /\ last_call.exc.type = "BudgetExceededException"
       /\ ~last_call.ran
       /\ ~last_call.returned
       /\ last_call.count_after = last_call.count_before
       /\ step_count = last_call.count_before

\* A call of the step executor has been refused after step functions of the
\* run had used up a positive budget.
C24_Witness ==
    /\ ExecutorCalled
    /\ step_budget > 0
    /\ last_call.count_before = step_budget
    /\ Len(trace) = step_budget
    /\ last_call.exc.type = "BudgetExceededException"

\* C25: every call of the step executor, whether it returns or raises (the
\* budget-exceeded and step-timeout errors included), writes exactly one
\* "step_start" event followed by exactly one of "step_complete" and
\* "step_error".
C25_OnePairPerInvocation ==
    ExecutorCalled =>
        \/ last_call.wrote = << "step_start", "step_complete" >>
        \/ last_call.wrote = << "step_start", "step_error" >>

\* C26: when a step function returns after more than the timeout, the step
\* executor raises the step-timeout error: the function has run to its end,
\* "step_start" and "step_error" are recorded and no "step_complete", nothing
\* is returned (a framed spec is not taken over by run()) and the step is not
\* counted.
C26_TimeoutPostHoc ==
    (ExecutorCalled /\ last_call.overran)
    => /\ last_call.exc.type = "StepTimeoutException"
       /\ last_call.ran
       /\ last_call.wrote = << "step_start", "step_error" >>
       /\ ~last_call.returned
       /\ last_call.count_after = last_call.count_before
       /\ last_call.step = "frame_spec" => spec = spec_in

\* The framer has returned an updated spec too late: the step-timeout error
\* is raised and the updated spec is dropped.
C26_Witness ==
    /\ ExecutorCalled
    /\ last_call.overran
    /\ last_call.step = "frame_spec"
    /\ framed # None
    /\ raised.type = "StepTimeoutException"

\* C27: in a retryable stage an attempt that ends with the step-timeout error
\* is followed by a new attempt while attempts remain, and an attempt that
\* ends with the budget-exceeded error ends the stage and the run at once:
\* no further attempt and no backoff sleep.
C27_BudgetExceededIsFatal ==
    /\ (/\ retry_hist.stage # None
        /\ retry_hist.last_exc.type = "StepTimeoutException"
        /\ retry_hist.attempts <= max_retries)
       => retry_hist.outcome = "retrying"
    /\ (/\ retry_hist.stage # None
        /\ retry_hist.last_exc.type = "BudgetExceededException")
       => /\ retry_hist.outcome = "raised"
          /\ retry_hist.sleeps = << >>
          /\ CountEvents(audit_events, "step_retry") = 0

\* The events of the retry loop logged since the current or last retryable
\* stage was entered.
RetryEvents ==
    SelectSeq(EventTypes(SubSeq(audit_events, retry_hist.log_before + 1,
                                Len(audit_events))),
              LAMBDA t : t \in {"step_retry", "step_retry_failed",
                                "step_max_retries_exceeded"})

\* n times "step_retry_failed" then "step_retry".
FailedThenRetry(n) ==
    [i \in 1..(2 * n) |-> IF i % 2 = 1 THEN "step_retry_failed" ELSE "step_retry"]

\* C28 as stated: "step_retry_failed" after each failed attempt, the final
\* one included, "step_retry" before each sleep, and
\* "step_max_retries_exceeded" when the final attempt has failed.
C28_Original ==
    retry_hist.stage # None =>
        RetryEvents =
            IF retry_hist.outcome = "returned"
            THEN FailedThenRetry(retry_hist.attempts - 1)
            ELSE IF retry_hist.outcome = "retrying"
            THEN FailedThenRetry(retry_hist.attempts - 1) \o << "step_retry_failed" >>
            ELSE FailedThenRetry(retry_hist.attempts - 1)
                 \o << "step_retry_failed", "step_max_retries_exceeded" >>

\* C28: in a retryable stage "step_retry" is logged before each backoff sleep
\* and not before the first attempt, "step_retry_failed" after each failed
\* attempt but the final one, and after the failure of the final attempt
\* "step_max_retries_exceeded" is logged in its place, right before the
\* exception reaches run().
C28_RetryEvents ==
    retry_hist.stage # None =>
        /\ RetryEvents =
             IF retry_hist.outcome = "returned"
             THEN FailedThenRetry(retry_hist.attempts - 1)
             ELSE IF retry_hist.outcome = "retrying"
             THEN FailedThenRetry(retry_hist.attempts - 1) \o << "step_retry_failed" >>
             ELSE FailedThenRetry(retry_hist.attempts - 1)
                  \o << "step_max_retries_exceeded" >>
        /\ CountEvents(SubSeq(audit_events, retry_hist.log_before + 1,
                              Len(audit_events)), "step_retry")
             = Len(retry_hist.sleeps)
        /\ retry_hist.outcome = "raised" =>
             /\ Len(audit_events) >= 2
             /\ audit_events[Len(audit_events) - 1].event_type
                  = "step_max_retries_exceeded"
             /\ audit_events[Len(audit_events)].event_type = "pipeline_error"
             /\ raised = retry_hist.last_exc

\* The step function of a retryable stage has run and failed in every
\* attempt.
C28_Witness ==
    /\ retry_hist.outcome = "raised"
    /\ retry_hist.executed = max_retries + 1
    /\ Len(retry_hist.sleeps) = max_retries
    /\ CountEvents(audit_events, "step_max_retries_exceeded") = 1

\* C30: the audit log on disk is append-only: every record of the file
\* stays where it is, unchanged, whatever is written later, by a later save
\* or by a later run with the same output directory.
C30_AppendOnly ==
    [][\A i \in 1..Len(audit_file.lines) :
          /\ i <= Len(audit_file'.lines)
          /\ audit_file'.lines[i] = audit_file.lines[i]]_vars

\* ---------------------------------------------------------------------------
\* Packaging and repeated runs
\* ---------------------------------------------------------------------------

\* C29: in every run that has returned, of any pack type, every artifact of
\* the published index (the artifacts of the Blackboard) has had its content
\* hash calculated by the Package stage, with or without spec.export.bundle.
C29_PackageHashesAll ==
    pc = "returned" =>
        \A i \in 1..Len(result.artifacts) : result.artifacts[i] \in hashed

\* C21: a second call of run() with the same pack type, audience mode and
\* offline flag as the first, all step functions succeeding in both, ends as
\* the first call ended (returned, or raised the same type of error) after
\* executing the same steps in the same order.
C21_SameInputsSameRun ==
    (/\ run_id = "run-2"
     /\ RunEnded
     /\ first_run.pack = pack
     /\ first_run.offline = offline
     /\ first_run.audience_mode = audience_mode)
    => /\ pc = first_run.pc
       /\ StepsOf(trace) = first_run.steps
       /\ raised.type = first_run.raised.type

\* ---------------------------------------------------------------------------
\* LibrarianAgent
\* ---------------------------------------------------------------------------

\* The call of LibrarianAgent.run has gone through its loop and returned.
ResearchCompleted ==
    /\ librarian # << >>
    /\ librarian.pc = "returned"
    /\ librarian.output.action = "research_completed"

\* C22: the number of URLs the librarian reports as processed never exceeds
\* spec.research_context.max_documents.
C22_MaxDocumentsRespected ==
    ResearchCompleted => librarian.output.urls_processed <= librarian.max_documents

\* C23: whatever URLs fail in fetching or processing, the librarian goes
\* through every URL of its list, counts each failure in its error count and
\* returns status "ok".
C23_FailuresCounted ==
    ResearchCompleted =>
        /\ librarian.i = librarian.output.urls_processed
        /\ librarian.output.status = EnumValue(Status_OK)
        /\ librarian.output.errors = librarian.failed

\* ------------------------------------------------------------------ C31
LastBulk == cache_obs.last
\* What get(level, identifier) returns on a directory at the time now.
Retrieved(files, k) == get(files, k, clock).result

\* C31: once clear_level(L) has ended, a get of any entry of level L returns
\* nothing and a get of any entry of another level returns what it returned
\* on the directory before the call; once clear_all has ended, a get of any
\* entry returns nothing.
C31_ClearLevelAndClearAll ==
    /\ LastBulk.op = "clear_level" =>
          \A k \in BulkKeys :
              IF k[1] = LastBulk.arg
              THEN Retrieved(cache_files, k).kind = "miss"
              ELSE Retrieved(cache_files, k) = Retrieved(LastBulk.before, k)
    /\ LastBulk.op = "clear_all" =>
          \A k \in BulkKeys : Retrieved(cache_files, k).kind = "miss"

\* ------------------------------------------------------------------ C32
\* The entries of a directory whose TTL had elapsed at the time at, and
\* those whose TTL had not.
ExpiredAt(files, at) ==
    { k \in BulkKeys : /\ Complete(files[_cache_path(k)])
                       /\ at - files[_cache_path(k)].c1.cached_at > ttl_settings(k[1]) }
FreshAt(files, at) ==
    { k \in BulkKeys : /\ Complete(files[_cache_path(k)])
                       /\ ~(at - files[_cache_path(k)].c1.cached_at > ttl_settings(k[1])) }

\* C32: once clear_expired has ended, every entry that was expired when it
\* started is gone, every entry that was not is in the directory with the
\* document it had, and the number returned is the number of expired
\* entries the directory held when the call started.
C32_SweepOnlyExpired ==
    LastBulk.op = "clear_expired" =>
        /\ ~LastBulk.raised
        /\ \A k \in ExpiredAt(LastBulk.before, LastBulk.at) :
              cache_files[_cache_path(k)].kind = "absent"
        /\ \A k \in FreshAt(LastBulk.before, LastBulk.at) :
              cache_files[_cache_path(k)] = LastBulk.before[_cache_path(k)]
        /\ LastBulk.cleared = Cardinality(ExpiredAt(LastBulk.before, LastBulk.at))

ReturnedInTime ==
    /\ last_call.ran
    /\ ~last_call.overran
    /\ last_call.exc.type \notin {"AgentError", "RuntimeError", "ValueError",
                                  "RenderError"}

\* C34: the step counter is between 0 and the step budget in every state;
\* the counter is what the latest call of the step executor left, and a
\* call leaves it one higher when its step function has returned within the
\* timeout and unchanged otherwise.
C34_CounterWithinBudget ==
    /\ 0 <= step_count
    /\ step_count <= step_budget
    /\ last_call.step # None =>
          /\ step_count = last_call.count_after
          /\ last_call.count_after =
                IF ReturnedInTime THEN last_call.count_before + 1
                ELSE last_call.count_before
    /\ last_call.step = None => step_count = 0

C34_Witness ==
    /\ step_budget = 3
    /\ step_count = step_budget
    /\ ReturnedInTime
    /\ last_call.count_before = 2
    /\ \E i \in 1..Len(audit_events) : audit_events[i].event_type = "step_error"

\* ------------------------------------------------------------------ C35
\* The event types written since the current retryable stage was entered.
StageEvents ==
    { audit_events[i].event_type : i \in (retry_hist.log_before + 1)..Len(audit_events) }

\* C35: when a retryable stage has returned after k attempts, k is between 1
\* and max_retries + 1, the step function was invoked in each of the k
\* attempts, the stage slept k - 1 times (T, 2T, ... before the attempts 2 to
\* k), it wrote no "step_max_retries_exceeded" event, the attempt that
\* returned is the latest call of the step executor (none was made after
\* it, the pipeline is at the next step) and what that call returned is the
\* result of the stage.
C35_FirstSuccessEndsStage ==
    retry_hist.outcome = "returned" =>
        /\ retry_hist.attempts \in 1..(max_retries + 1)
        /\ retry_hist.executed = retry_hist.attempts
        /\ retry_hist.sleeps = SubSeq(C2_ExpectedSleeps, 1, retry_hist.attempts - 1)
        /\ "step_max_retries_exceeded" \notin StageEvents
        /\ last_call.step = retry_hist.stage
        /\ last_call.attempt = retry_hist.attempts
        /\ last_call.exc = NoExc
        /\ retry_hist.last_exc = NoExc
        /\ pc = NextStep(retry_hist.stage, pack)
        /\ attempt = 0
        /\ Len(SelectSeq(trace, LAMBDA t : t.step = retry_hist.stage)) = retry_hist.attempts

C35_Witness ==
    /\ retry_hist.outcome = "returned"
    /\ retry_hist.stage = "research_content"
    /\ retry_hist.attempts = max_retries + 1
    /\ "step_retry_failed" \in StageEvents

\* ------------------------------------------------------------------ C36
\* The steps of the longest pipeline ("both": validate_spec, frame_spec,
\* research_content, four balanced steps, render_packs, eight deep steps,
\* package_outputs), and the largest number of step functions a run can
\* invoke: each step once and max_retries more for each retryable stage.
LongestPipeline == Cardinality(PipelineSteps \cup RetryableSteps \cup
                               {"validate_spec", "frame_spec", "package_outputs"})
MostInvocations == LongestPipeline + Cardinality(RetryableSteps) * max_retries

\* C36: every call of run() ends, by returning an ArtifactIndex or by
\* raising; it invokes a bounded number of step functions, a retryable stage
\* makes at most max_retries + 1 attempts and at most max_retries sleeps; and
\* when it has ended the audit file holds the whole audit log.
C36_RunTerminates ==
    /\ [](/\ Len(trace) <= MostInvocations
          /\ retry_hist.attempts <= max_retries + 1
          /\ Len(retry_hist.sleeps) <= max_retries
          /\ RunEnded => /\ audit_file.exists
                         /\ audit_file.lines = audit_events
                         /\ pc = "returned" =>
                               /\ result.run_id = run_id
                               /\ raised = NoExc
                         /\ pc = "raised" => raised # NoExc)
    /\ (pc = "validate_spec") ~> RunEnded

C36_Witness ==
    /\ pc = "returned"
    /\ pack = "both"
    /\ Len(trace) = MostInvocations
    /\ audit_file.lines = audit_events

\* ------------------------------------------------------------------ C37
\* C37: on an Orchestrator with the default step budget, a run in which
\* every stage succeeds on its first attempt never raises
\* BudgetExceededException, whatever the pack type and the offline flag.
C37_DefaultBudgetSuffices ==
    /\ raised.type # "BudgetExceededException"
    /\ last_call.exc.type # "BudgetExceededException"

\* ------------------------------------------------------------------ C38
\* C38: the ArtifactIndex run() returns holds no artifact twice, also when
\* an attempt of a retryable stage had added its artifacts to the blackboard
\* before it failed or overran the timeout and the stage was retried.
C38_IndexWithoutDuplicates ==
    pc = "returned" =>
        \A i, j \in 1..Len(result.artifacts) :
            result.artifacts[i] = result.artifacts[j] => i = j

\* ------------------------------------------------------------------ C39
\* The two calls that ended last are a set that returned True and a get of
\* the same key that ran while the set ran; nothing has happened since.
SetAndGetOverlapped(set_rec, get_rec) ==
    /\ set_rec.op = "set"
    /\ set_rec.result.kind = "true"
    /\ get_rec.op = "get"
    /\ get_rec.key = set_rec.key
    /\ ~set_rec.alone
    /\ ~get_rec.alone
    /\ AllIdle
    /\ cache_obs.quiet

\* C39: when a set that returned True and a get of the same key have
\* overlapped and both have ended, a get of the key returns the payload of
\* the set (as json.load gives it back).
C39_GetDoesNotUndoSet ==
    \A recs \in { << cache_obs.last, cache_obs.prev >>,
                  << cache_obs.prev, cache_obs.last >> } :
        SetAndGetOverlapped(recs[1], recs[2]) =>
            get(cache_files, recs[1].key, clock).result =
                Result("hit", json_load_data(json_dump(recs[1].payload)))

\* ------------------------------------------------------------------ C40
\* C40: while orchestrator.run runs for a call of generate() with
\* offline=False, offline mode is not enabled and neither
\* socket.create_connection nor PoolManager.request is blocked, whatever
\* calls of generate() the process has made before.
C40_OfflineConfinedToCall ==
    /\ (app.pc = "run" /\ ~app.offline) =>
          /\ ~is_offline_mode_enabled(app.globals)
          /\ app.globals.create_connection = "original"
          /\ app.globals.request = "original"
    /\ \A i \in 1..Len(app.calls) :
          (~app.calls[i].offline /\ app.calls[i].outcome # "ValueError") =>
              ~app.calls[i].offline_mode /\ ~app.calls[i].blocked

====
